---------------------------- MODULE Spec2Model ----------------------------
(***************************************************************************)
(* flibcast: the session orchestrator of app/serve/http_api.py together    *)
(* with the session registry of app/core/session.py and the handles of     *)
(* app/render and app/capture, as a state machine.                         *)
(*                                                                         *)
(* One orchestration task (a daemon thread running _orchestrate) exists    *)
(* per session; control-plane handlers (POST, GET status, DELETE) and the  *)
(* lifespan shutdown hook run concurrently with the tasks.  A step of the  *)
(* model is one blocking call or one access to shared state of the code.   *)
(*                                                                         *)
(* Collaborators (display server, browser, encoder, receiver client) are   *)
(* external: a call on one either returns or raises, and the model takes   *)
(* both outcomes wherever the code of the handle lets the call raise.  A   *)
(* child process that was started is taken to live until its handle stops  *)
(* it.                                                                     *)
(***************************************************************************)
EXTENDS Integers, FiniteSets, Sequences, TLC

\* Session ids of the model (uuid4 hex tokens in the code, never reused).
MaxSessions == 2

Sids == 1..MaxSessions

\* The clock values of the model: the clock starts at 1 and stops at MaxClock.
MaxClock == 3

\* Iterations of the warmup loop before its deadline: the 15 s of the
\* deadline in waits of 0.5 s, scaled down.
WarmupTicks == 2

\* Segment files in a directory given to the freshness probe.
MaxSegments == 2

\* Number of POST /sessions requests served under Spec, where every handler
\* and the shutdown hook run; SpecPair creates all MaxSessions sessions.
MaxServed == 1

\* DELETE requests for one session that may be in flight at a time; Spec
\* serves them one at a time, SpecTwice side by side.
MaxHandlers == 2

Handlers == 1..MaxHandlers

\* Receiver names a start request may carry (StartRequest.receiver_name).
Receivers == {"tv", "kitchen"}

\* Session.state (State literal) and "none" for a session not yet created.
States == {"starting", "playing", "stopping", "stopped", "error"}

VARIABLES
    sessions,           \* SessionManager._sessions: ids in the session registry
    created,            \* ids handed out by SessionManager.create so far
    state,              \* Session.state of every session object
    receiver_name,      \* req.receiver_name = session.receiver_name = runtime.receiver_name
    dir,                \* the session directory exists
    master,             \* dir/index.m3u8 exists
    seg,                \* newest *.ts of the directory: "none", "fresh", "stale"
    runtimes,           \* _runtimes: ids with a SessionRuntime registered
    stop_event,         \* SessionRuntime.stop_event
    xvfb,               \* Xvfb.is_running of the session's display handle
    driver,             \* PlaywrightDriver.is_running of the session's controller
    encoder,            \* FfmpegHls.is_running of the session's encoder handle
    receiver_sessions,  \* _receiver_sessions as a set of <<name, sid>> entries
    pc,                 \* position of the session's orchestration task
    tdFail,             \* which teardown step of the task raised
    dpc,                \* position of each DELETE handler serving the session
    ppc,                \* position of the POST handler that created the session
    sh,                 \* position of _shutdown_sessions
    deleted,            \* a DELETE for the session has answered 200
    now,                \* the wall clock (_now_utc), in clock units
    last_ok_at,         \* Session.last_ok_at; 0 is None
    ticks,              \* iterations of the warmup loop of the task so far
    probe,              \* a directory given to the freshness probe, the clock
                        \* at the probe, and the report returned
    cause,              \* what the task's except clause caught: the warmup
                        \* deadline, a stale age, or another exception
    drv,                \* a PlaywrightDriver, the arguments of a launch call on
                        \* it, and how far the call has got
    cmd,                \* an HlsProfile and the argument vectors build_command
                        \* returned for it
    snd,                \* a Sender, the receivers on the network, a call on the
                        \* Sender and what the call did
    xv,                 \* Xvfb handles, the processes they spawned, the
                        \* process environment's DISPLAY, and the last call
    ff,                 \* an FfmpegHls handle, the processes it spawned, its
                        \* output directory, and the last call on it
    resp                \* the response a handler has just produced

vars == <<sessions, created, state, receiver_name, dir, master, seg, runtimes,
          stop_event, xvfb, driver, encoder, receiver_sessions, pc, tdFail,
          dpc, ppc, sh, deleted, now, last_ok_at, ticks, cause, probe, drv,
          cmd, snd, xv, ff, resp>>

\* Everything but the response: the state of sessions, runtimes and bindings.
core == <<sessions, created, state, receiver_name, dir, master, seg, runtimes,
          stop_event, xvfb, driver, encoder, receiver_sessions, pc, tdFail,
          dpc, ppc, sh, deleted, now, last_ok_at, ticks, cause>>

\* The objects the unit-level specifications work on; the orchestrator leaves
\* them alone.
units == <<probe, drv, cmd, snd, xv, ff>>

\* hls_url = None: no path.
Null == <<>>

\* The path of a session's playlist under the static mount.
HlsMasterUrlPath(s) == <<"/cast", s, "index.m3u8">>

\* No response; an error response or {"ok": true}; a SessionStatus (its
\* state and hls_url); a SessionListResponse (its items).
NoResp == [op |-> "none", sid |-> 0, code |-> 0, state |-> "none",
           hls_url |-> Null, items |-> {}]

Response(op, sid, code, st, hls) ==
    [op |-> op, sid |-> sid, code |-> code, state |-> st, hls_url |-> hls,
     items |-> {}]

-----------------------------------------------------------------------------
(* dict operations on _receiver_sessions *)

\* A buggy dict assignment that keeps the old entry of the key.
DictSetKeepOld(d, name, sid) == d \cup {<<name, sid>>}

\* _receiver_sessions[name] = sid
DictSet(d, name, sid) == {e \in d : e[1] # name} \cup {<<name, sid>>}

\* _receiver_sessions.pop(name, None)
DictPop(d, name) == {e \in d : e[1] # name}

\* _receiver_sessions.get(name) == sid
BoundTo(d, name, sid) == <<name, sid>> \in d

-----------------------------------------------------------------------------
(* Session.freshness_ms: None without playlist or without segment *)

\* The age the probe reports: "none", or the age class of the newest segment.
FreshnessMs(s) == IF ~master[s] THEN "none" ELSE seg[s]

-----------------------------------------------------------------------------
(* SessionFreshness.evaluate as a function of the directory and the clock *)

\* Optional[int] None: no age, no file.
None == -1

\* SessionFreshness.stale_after_ms
stale_after_ms == 8000

\* Instants in ms (file mtimes and the clock of a probe): ages of 0, 1,
\* 7999, 8000, 8001 and more occur among them.
Instants == {0, 1, 8000, 8001, 16002}

\* The newest of a non-empty set of mtimes.
Newest(S) == CHOOSE m \in S : \A n \in S : n <= m

\* No report yet.
NoReport == [last_segment_age_ms |-> None, stale |-> FALSE, made |-> FALSE]

\* FreshnessReport(last_segment_age_ms, stale)
FreshnessReport(age, stale) ==
    [last_segment_age_ms |-> age, stale |-> stale, made |-> TRUE]

\* SessionFreshness.evaluate: master is the mtime of index.m3u8 or None,
\* segments the mtimes of the *.ts files.
evaluate(now_ms, master_ms, segments) ==
    IF master_ms = None
      THEN FreshnessReport(None, TRUE)
      ELSE IF segments = {}
        THEN FreshnessReport(None, now_ms - master_ms > stale_after_ms)
        ELSE FreshnessReport(now_ms - Newest(segments),
                             now_ms - Newest(segments) > stale_after_ms)

\* FfmpegHls.freshness_ms on the same directory: the age of the newest *.ts
\* file; without one, None when there is no playlist, else the playlist's age.
FfmpegHls_freshness_ms(now_ms, master_ms, segments) ==
    IF segments # {}
      THEN now_ms - Newest(segments)
      ELSE IF master_ms = None THEN None ELSE now_ms - master_ms

\* FfmpegHls.is_fresh with the profile's threshold (HlsProfile.stale_after_ms,
\* the value of SessionFreshness.stale_after_ms).
FfmpegHls_is_fresh(now_ms, master_ms, segments) ==
    LET age == FfmpegHls_freshness_ms(now_ms, master_ms, segments)
    IN  IF age = None THEN FALSE ELSE age <= stale_after_ms

-----------------------------------------------------------------------------
(* SessionManager.create: the directory of a session, as a path *)

\* SessionManager.root
Root == <<"sessions">>

\* A session directory that is the root itself.
SessionDirIsRoot(sid) == Root

\* session_dir = self.root / sid
SessionDir(sid) == Root \o <<sid>>

\* Path p is a proper ancestor of path q.
IsAncestor(p, q) == Len(p) < Len(q) /\ SubSeq(q, 1, Len(p)) = p

-----------------------------------------------------------------------------
(* Session.display *)

\* The display of a session: SessionManager.create passes none to Session,
\* so it is the default of the field; start_session hands it to the Xvfb and
\* FfmpegHls handles of the session.
Display(s) == ":99"

-----------------------------------------------------------------------------
(* PlaywrightDriver: the arguments of launch and the controller's fields *)

\* The cookies argument of launch: None, an empty list, a list of cookies.
CookieArgs == {"None", "empty", "some"}

\* The cookies_path argument: None, the path of a JSON list of cookies, a
\* path at which there is no file.
PathArgs == {"None", "file", "missing"}

\* bool(cookies): a list is true when it has an element.
CookiesTruthy(c) == c = "some"

\* bool(cookies_path): a Path is true whatever it names.
PathTruthy(p) == p # "None"

\* A controller as __init__ leaves it (manager, playwright, browser, context
\* and page all None) with no call on it.
NoLaunch ==
    [pc |-> "idle", cookies |-> "None", cookies_path |-> "None",
     user_data_dir |-> FALSE, prior |-> FALSE, manager |-> FALSE,
     playwright |-> FALSE, browser |-> FALSE, context |-> FALSE,
     page |-> FALSE, result |-> "none", closes |-> 0, close |-> "none",
     steps |-> <<>>]

\* close calls made on one controller.
MaxCloses == 2

\* How a call made by close ends: it returns, it raises the library's Error
\* (caught), or it raises something else (a greenlet error when close runs on
\* another thread than launch did), which no except clause of close catches.
CloseOutcomes == {"ok", "Error", "other"}

\* PlaywrightDriver.is_running
DriverIsRunning(d) == d.context

\* No directory probed.
NoProbe == [now |-> 0, master |-> None, segments |-> {}, report |-> NoReport]

-----------------------------------------------------------------------------
(* HlsProfile and FfmpegHls.build_command; a string is a sequence of pieces, *)
(* a piece being a character or a literal word                            *)

\* Longest video_bitrate string of a profile.
MaxBitrateLen == 3

\* The characters of the decimal digits, "0" first.
DigitChar == <<"0", "1", "2", "3", "4", "5", "6", "7", "8", "9">>

\* ch.isdigit()
IsDigit(ch) == \E d \in 1..10 : DigitChar[d] = ch

\* The value of a digit character.
DigitVal(ch) == (CHOOSE d \in 1..10 : DigitChar[d] = ch) - 1

\* int(digits) of a string of digits.
RECURSIVE ToInt(_)
ToInt(ds) ==
    IF ds = <<>> THEN 0
    ELSE 10 * ToInt(SubSeq(ds, 1, Len(ds) - 1)) + DigitVal(ds[Len(ds)])

\* str(n) of a natural number.
RECURSIVE ToStr(_)
ToStr(n) ==
    IF n < 10 THEN <<DigitChar[n + 1]>>
    ELSE ToStr(n \div 10) \o <<DigitChar[(n % 10) + 1]>>

\* Characters a video_bitrate is written with, and the strings of them.
BitrateChars == {"1", "5", "k", "M", "."}

RECURSIVE StringsUpTo(_)
StringsUpTo(n) ==
    IF n = 0 THEN {<<>>}
    ELSE LET shorter == StringsUpTo(n - 1)
         IN  shorter \cup {s \o <<c>> : s \in shorter, c \in BitrateChars}

Bitrates == StringsUpTo(MaxBitrateLen) \ {<<>>}

\* Frame rates of a profile.
FpsValues == {1, 15}

\* _parse_bitrate: the digits of the string, wherever they stand, as one
\* number, and the other characters as the suffix ("k" when there are none);
\* ValueError without a digit.
parse_bitrate(value) ==
    LET digits == SelectSeq(value, IsDigit)
        suffix == SelectSeq(value, LAMBDA ch : ~IsDigit(ch))
    IN  IF digits = <<>>
          THEN [raised |-> TRUE, rate |-> 0, suffix |-> <<>>]
          ELSE [raised |-> FALSE, rate |-> ToInt(digits),
                suffix |-> IF suffix = <<>> THEN <<"k">> ELSE suffix]

\* HlsProfile.bufsize: f"{rate * 2}{suffix}"
bufsize(profile) ==
    LET parsed == parse_bitrate(profile.video_bitrate)
    IN  ToStr(parsed.rate * 2) \o parsed.suffix

\* HlsProfile.gop
gop(profile) == profile.fps * 2

\* FfmpegHls.build_command on a handle for display :99: the argument vector,
\* or the ValueError of _parse_bitrate.
build_command(profile) ==
    IF parse_bitrate(profile.video_bitrate).raised
      THEN [raised |-> TRUE, argv |-> <<>>]
      ELSE [raised |-> FALSE,
            argv |->
              << <<"ffmpeg">>, <<"-loglevel">>, <<"warning">>, <<"-nostdin">>,
                 <<"-y">>, <<"-f">>, <<"x11grab">>, <<"-framerate">>,
                 ToStr(profile.fps), <<"-video_size">>, <<"1920x1080">>,
                 <<"-i">>, <<Display(0)>> >>
              \o (IF profile.audio
                    THEN << <<"-f">>, <<"pulse">>, <<"-i">>, <<"default">> >>
                    ELSE <<>>)
              \o << <<"-c:v">>, <<"libx264">>, <<"-preset">>, <<"veryfast">>,
                    <<"-tune">>, <<"zerolatency">>,
                    <<"-b:v">>, profile.video_bitrate,
                    <<"-maxrate">>, profile.video_bitrate,
                    <<"-bufsize">>, bufsize(profile),
                    <<"-g">>, ToStr(gop(profile)),
                    <<"-keyint_min">>, ToStr(gop(profile)),
                    <<"-sc_threshold">>, <<"0">> >>
              \o (IF profile.audio
                    THEN << <<"-c:a">>, <<"aac">>, <<"-b:a">>, <<"128k">>,
                            <<"-ac">>, <<"2">> >>
                    ELSE <<>>)
              \o << <<"-hls_time">>, <<"2">>, <<"-hls_list_size">>, <<"6">>,
                    <<"-hls_flags">>,
                    <<"delete_segments+independent_segments">>,
                    <<"-master_pl_name">>, <<"index.m3u8">>, <<"-f">>,
                    <<"hls">>, <<"variant_1080p.m3u8">> >>]

\* The argument that follows the first occurrence of an option.
C22_ArgAfter(argv, opt) ==
    argv[(CHOOSE i \in 1..Len(argv) :
             argv[i] = opt /\ \A j \in 1..(i - 1) : argv[j] # opt) + 1]

\* How many leading characters of a string are digits.
RECURSIVE C22_LeadingDigits(_)
C22_LeadingDigits(str) ==
    IF str = <<>> \/ ~IsDigit(Head(str)) THEN 0
    ELSE 1 + C22_LeadingDigits(Tail(str))

\* A rate argument as ffmpeg reads it: the number it starts with, and the
\* unit suffix after the number.
C22_RateOf(str) == ToInt(SubSeq(str, 1, C22_LeadingDigits(str)))

C22_UnitOf(str) == SubSeq(str, C22_LeadingDigits(str) + 1, Len(str))

\* No encoder profile and no command built.
NoCommand ==
    [pc |-> "idle",
     profile |-> [fps |-> 15, video_bitrate |-> <<"1", "k">>, audio |-> FALSE],
     first |-> [raised |-> FALSE, argv |-> <<>>],
     second |-> [raised |-> FALSE, argv |-> <<>>]]

-----------------------------------------------------------------------------
(* Sender (fcast_adapter.py): discover, _resolve, play, stop *)

\* Devices in the list the discovery client returns.
MaxDevices == 2

\* Sender.client: None, a client with a discover method, a client without.
Clients == {"None", "discovery", "plain"}

\* Device dicts a discovery may return; "" is a missing name or id.
Devices ==
    { [name |-> "tv", id |-> "a"], [name |-> "tv", id |-> "b"],
      [name |-> "kitchen", id |-> "c"], [name |-> "tv", id |-> ""],
      [name |-> "", id |-> "d"] }

\* Lists of at most MaxDevices devices.
DeviceLists == UNION { [1..n -> Devices] : n \in 0..MaxDevices }

\* The host argument: None, or an address.
Hosts == {"None", "10.0.0.9"}

\* self.client and hasattr(self.client, "discover")
CanDiscover(s) == s.client = "discovery"

\* Sender.discover: a Receiver for every device with a name and an id; the
\* empty list without a discovery client.
discover(s) ==
    IF CanDiscover(s)
      THEN SelectSeq(s.devices, LAMBDA d : d.name # "" /\ d.id # "")
      ELSE <<>>

\* No receiver (None).
NoReceiver == [name |-> "", id |-> ""]

\* A lookup that takes the first receiver discovered, whatever its name.
resolveFirst(s, name) ==
    IF discover(s) = <<>> THEN NoReceiver ELSE Head(discover(s))

\* Sender._resolve: the first discovered receiver of that name, or None.
resolve(s, name) ==
    LET named == SelectSeq(discover(s), LAMBDA r : r.name = name)
    IN  IF named = <<>> THEN NoReceiver ELSE Head(named)

\* A command sent to a receiver: through the discovery client to an id, or
\* through a direct client connected to host:port.
Command(via, what, id, host) ==
    [via |-> via, what |-> what, id |-> id, host |-> host]

\* Sender.play and Sender.stop (what is "play" or "stop"): the value
\* returned and the commands issued.
send(s, what) ==
    IF CanDiscover(s)
      THEN IF resolve(s, s.receiver_name) = NoReceiver
             THEN [ret |-> FALSE, issued |-> <<>>]
             ELSE [ret |-> TRUE,
                   issued |-> <<Command("discovery", what,
                                        resolve(s, s.receiver_name).id, "None")>>]
    ELSE IF ~s.legacy \/ s.host = "None"
      THEN [ret |-> FALSE, issued |-> <<>>]
      ELSE [ret |-> TRUE, issued |-> <<Command("direct", what, "", s.host)>>]

\* No Sender and no call.
NoCall ==
    [pc |-> "idle", client |-> "None", legacy |-> FALSE, devices |-> <<>>,
     op |-> "discover", receiver_name |-> "tv", host |-> "None",
     ret |-> FALSE, raised |-> FALSE, receivers |-> <<>>, issued |-> <<>>]

-----------------------------------------------------------------------------
(* Xvfb and FfmpegHls handles: values *)

\* The Xvfb handles that share one process environment, and the processes
\* the handles spawn over their life.
MaxXvfb == 2
MaxSpawned == 3

XvfbHandles == 1..MaxXvfb
Pids == 1..MaxSpawned

\* Xvfb.display of a handle; os.environ's DISPLAY: no entry ("unset"), the
\* display of a handle, or a value the server inherited (":0").
Displays == {":99", ":100"}
DisplayEnv == Displays \cup {"unset", ":0"}

\* No Xvfb handle in use.  proc is Xvfb._proc (0 is None, else the process),
\* alive the processes that have not exited, owner the handle whose start
\* spawned a process.
NoXvfb ==
    [pc |-> "idle", display |-> [h \in XvfbHandles |-> ":99"],
     proc |-> [h \in XvfbHandles |-> 0], alive |-> {}, spawned |-> 0,
     owner |-> [p \in Pids |-> 0], DISPLAY |-> "unset",
     op |-> "none", h |-> 0, raised |-> FALSE]

\* Xvfb.is_running: bool(self._proc and self._proc.poll() is None)
Xvfb_is_running(x, h) == x.proc[h] # 0 /\ x.proc[h] \in x.alive

\* The FfmpegHls handles of the sessions of one server.
MaxEncoders == 2

EncoderHandles == 1..MaxEncoders

\* No FfmpegHls handle in use.  proc is FfmpegHls._proc (0 is None), out_dir
\* whether the handle's output directory exists, owner the handle whose
\* start spawned a process.
NoEncoder ==
    [pc |-> "idle", proc |-> [e \in EncoderHandles |-> 0], alive |-> {},
     spawned |-> 0, owner |-> [p \in Pids |-> 0],
     out_dir |-> [e \in EncoderHandles |-> FALSE],
     op |-> "none", e |-> 0, raised |-> "none"]

\* FfmpegHls.is_running: bool(self._proc and self._proc.poll() is None)
FfmpegHls_is_running(f, e) == f.proc[e] # 0 /\ f.proc[e] \in f.alive

-----------------------------------------------------------------------------
\* No session, no runtime, no binding, no request served.
InitCore ==
    /\ sessions = {}
    /\ created = {}
    /\ state = [s \in Sids |-> "none"]
    /\ receiver_name = [s \in Sids |-> "tv"]
    /\ dir = [s \in Sids |-> FALSE]
    /\ master = [s \in Sids |-> FALSE]
    /\ seg = [s \in Sids |-> "none"]
    /\ runtimes = {}
    /\ stop_event = [s \in Sids |-> FALSE]
    /\ xvfb = [s \in Sids |-> FALSE]
    /\ driver = [s \in Sids |-> FALSE]
    /\ encoder = [s \in Sids |-> FALSE]
    /\ receiver_sessions = {}
    /\ pc = [s \in Sids |-> "none"]
    /\ tdFail = [s \in Sids |-> "none"]
    /\ dpc = [s \in Sids |-> [h \in Handlers |-> "idle"]]
    /\ ppc = [s \in Sids |-> "idle"]
    /\ sh = [pc |-> "idle", cur |-> 0, todo |-> {}]
    /\ deleted = [s \in Sids |-> FALSE]
    /\ now = 1
    /\ last_ok_at = [s \in Sids |-> 0]
    /\ ticks = [s \in Sids |-> 0]
    /\ cause = [s \in Sids |-> "none"]
    /\ resp = NoResp

Init ==
    /\ InitCore
    /\ probe = NoProbe
    /\ drv = NoLaunch
    /\ cmd = NoCommand
    /\ snd = NoCall
    /\ xv = NoXvfb
    /\ ff = NoEncoder

\* The values the variables take.
TypeOK ==
    /\ sessions \subseteq created /\ created \subseteq Sids
    /\ runtimes \subseteq created
    /\ state \in [Sids -> States \cup {"none"}]
    /\ receiver_name \in [Sids -> Receivers]
    /\ dir \in [Sids -> BOOLEAN] /\ master \in [Sids -> BOOLEAN]
    /\ seg \in [Sids -> {"none", "fresh", "stale"}]
    /\ stop_event \in [Sids -> BOOLEAN]
    /\ xvfb \in [Sids -> BOOLEAN] /\ driver \in [Sids -> BOOLEAN]
    /\ encoder \in [Sids -> BOOLEAN]
    /\ receiver_sessions \subseteq Receivers \X Sids
    /\ deleted \in [Sids -> BOOLEAN]
    /\ ppc \in [Sids -> {"idle", "respond"}]
    /\ now \in 1..MaxClock
    /\ last_ok_at \in [Sids -> 0..MaxClock]
    /\ ticks \in [Sids -> 0..WarmupTicks]
    /\ cause \in [Sids -> {"none", "deadline", "stale", "other"}]
    /\ \A s \in Sids : (master[s] \/ seg[s] # "none") => dir[s]

\* The server accepts requests until the lifespan hook starts shutting down.
Serving == sh.pc = "idle"

-----------------------------------------------------------------------------
(* POST /sessions *)

\* start_session up to thread.start(): SessionManager.create registers the
\* record and makes its directory (lines 233-237); the runtime is then built
\* and registered and the task spawned (lines 239-252).  An exception while
\* the handles are built (PlaywrightDriver as
\* declared in playwright_driver.py takes no hide_browser_ui) leaves the
\* handler with the record registered and nothing else: both outcomes are
\* taken.
start_session(s, r) ==
    /\ Serving
    /\ s \notin created
    /\ \A t \in Sids : t < s => t \in created
    /\ created' = created \cup {s}
    /\ sessions' = sessions \cup {s}
    /\ state' = [state EXCEPT ![s] = "starting"]
    /\ dir' = [dir EXCEPT ![s] = TRUE]
    /\ receiver_name' = [receiver_name EXCEPT ![s] = r]
    /\ \/ /\ runtimes' = runtimes \cup {s}
          /\ pc' = [pc EXCEPT ![s] = "imprint"]
          /\ ppc' = [ppc EXCEPT ![s] = "respond"]
          /\ resp' = NoResp
       \/ /\ resp' = Response("post", s, 500, "none", Null)
          /\ UNCHANGED <<runtimes, pc, ppc>>
    /\ UNCHANGED <<master, seg, stop_event, xvfb, driver, encoder,
                   receiver_sessions, tdFail, dpc, sh, deleted>>
    /\ UNCHANGED <<now, last_ok_at, ticks, cause, units>>

\* start_session, lines 254-266, after thread.start(): the handler builds the
\* SessionStatus from the record as it is now (state=session.state) and
\* answers; reading session.width, which the slots dataclass of session.py
\* does not declare, raises instead and the handler answers 500.
StartRespond(s) ==
    /\ ppc[s] = "respond"
    /\ ppc' = [ppc EXCEPT ![s] = "idle"]
    /\ \/ resp' = Response("post", s, 200, state[s], HlsMasterUrlPath(s))
       \/ resp' = Response("post", s, 500, "none", Null)
    /\ UNCHANGED <<sessions, created, state, receiver_name, dir, master, seg,
                   runtimes, stop_event, xvfb, driver, encoder,
                   receiver_sessions, pc, tdFail, dpc, sh, deleted, now,
                   last_ok_at, ticks, cause, units>>

-----------------------------------------------------------------------------
(* The orchestration task: _orchestrate and _await_initial_playlist *)

\* The except clause of _orchestrate: state = "error", stop_event.set(),
\* and control passes to the finally block.
Except(s, why) ==
    /\ state' = [state EXCEPT ![s] = "error"]
    /\ cause' = [cause EXCEPT ![s] = why]
    /\ stop_event' = [stop_event EXCEPT ![s] = TRUE]
    /\ pc' = [pc EXCEPT ![s] = "td_encoder"]

\* Lines 154-160, before the try: copy the request onto the record.  An
\* exception here (session.width on the slots dataclass of session.py, which
\* declares no width) leaves the thread without entering try/except/finally.
Imprint(s) ==
    /\ pc[s] = "imprint"
    /\ \E ok \in BOOLEAN :
          pc' = [pc EXCEPT ![s] = IF ok THEN "xvfb" ELSE "crashed"]
    /\ resp' = NoResp
    /\ UNCHANGED <<sessions, created, state, receiver_name, dir, master, seg,
                   runtimes, stop_event, xvfb, driver, encoder,
                   receiver_sessions, tdFail, dpc, sh, deleted>>
    /\ UNCHANGED <<units, ppc, now, last_ok_at, ticks, cause>>

\* An xvfb.start() whose failure is swallowed: the task goes on to the
\* browser launch without a display.
XvfbStartIgnored(s) ==
    /\ pc[s] = "xvfb"
    /\ \/ xvfb' = [xvfb EXCEPT ![s] = TRUE]
       \/ ~xvfb[s] /\ UNCHANGED xvfb
    /\ pc' = [pc EXCEPT ![s] = "launch"]
    /\ resp' = NoResp
    /\ UNCHANGED <<sessions, created, state, receiver_name, dir, master, seg,
                   runtimes, stop_event, driver, encoder, receiver_sessions,
                   tdFail, dpc, sh, deleted>>
    /\ UNCHANGED <<units, ppc, now, last_ok_at, ticks, cause>>

\* runtime.xvfb.start(): spawns the display server, or raises.
XvfbStart(s) ==
    /\ pc[s] = "xvfb"
    /\ \/ /\ xvfb' = [xvfb EXCEPT ![s] = TRUE]
          /\ pc' = [pc EXCEPT ![s] = "launch"]
          /\ UNCHANGED <<state, stop_event, cause>>
       \/ /\ ~xvfb[s]
          /\ Except(s, "other")
          /\ UNCHANGED xvfb
    /\ resp' = NoResp
    /\ UNCHANGED <<sessions, created, receiver_name, dir, master, seg, runtimes,
                   driver, encoder, receiver_sessions, tdFail, dpc, sh, deleted>>
    /\ UNCHANGED <<units, ppc, now, last_ok_at, ticks>>

\* runtime.driver.launch(...): on success the context exists; a launch that
\* raises may have created the context already (navigation failed) or not.
Launch(s) ==
    /\ pc[s] = "launch"
    /\ \/ /\ ~driver[s]
          /\ driver' = [driver EXCEPT ![s] = TRUE]
          /\ pc' = [pc EXCEPT ![s] = "encoder"]
          /\ UNCHANGED <<state, stop_event, cause>>
       \/ /\ \E ctx \in BOOLEAN : driver' = [driver EXCEPT ![s] = @ \/ ctx]
          /\ Except(s, "other")
    /\ resp' = NoResp
    /\ UNCHANGED <<sessions, created, receiver_name, dir, master, seg, runtimes,
                   xvfb, encoder, receiver_sessions, tdFail, dpc, sh, deleted>>
    /\ UNCHANGED <<units, ppc, now, last_ok_at, ticks>>

\* runtime.encoder.start(): raises when already running; otherwise makes the
\* output directory (mkdir exist_ok) and spawns ffmpeg, which may raise.
EncoderStart(s) ==
    /\ pc[s] = "encoder"
    /\ \/ /\ encoder[s]
          /\ Except(s, "other")
          /\ UNCHANGED <<dir, encoder>>
       \/ /\ ~encoder[s]
          /\ dir' = [dir EXCEPT ![s] = TRUE]
          /\ \/ /\ encoder' = [encoder EXCEPT ![s] = TRUE]
                /\ pc' = [pc EXCEPT ![s] = "warmup"]
                /\ UNCHANGED <<state, stop_event, cause>>
             \/ /\ Except(s, "other")
                /\ UNCHANGED encoder
    /\ resp' = NoResp
    /\ UNCHANGED <<sessions, created, receiver_name, master, seg, runtimes,
                   xvfb, driver, receiver_sessions, tdFail, dpc, sh, deleted>>
    /\ UNCHANGED <<units, ppc, now, last_ok_at, ticks>>

\* Session.mark_ok: last_ok_at = _now_utc()
MarkOk(s) == last_ok_at' = [last_ok_at EXCEPT ![s] = now]

\* A warmup whose result the caller does not look at: after the deadline the
\* task goes on to sender.play.
WarmupWaitUnchecked(s) ==
    /\ pc[s] = "warmup"
    /\ ppc[s] = "idle" \/ stop_event[s]
    /\ IF stop_event[s]
         THEN /\ Except(s, "other")
              /\ ticks' = [ticks EXCEPT ![s] = 0]
         ELSE IF ticks[s] >= WarmupTicks
         THEN /\ pc' = [pc EXCEPT ![s] = "play"]
              /\ ticks' = [ticks EXCEPT ![s] = 0]
              /\ UNCHANGED <<state, stop_event, cause>>
         ELSE /\ pc' = [pc EXCEPT ![s] = "warmup_probe"]
              /\ ticks' = [ticks EXCEPT ![s] = @ + 1]
              /\ UNCHANGED <<state, stop_event, cause>>
    /\ UNCHANGED <<units, ppc, now, last_ok_at>>
    /\ resp' = NoResp
    /\ UNCHANGED <<sessions, created, receiver_name, dir, master, seg, runtimes,
                   xvfb, driver, encoder, receiver_sessions, tdFail, dpc, sh,
                   deleted>>

\* _await_initial_playlist, loop head: the deadline has passed (every
\* iteration waits 0.5 s), or stop_event.wait(0.5) returns True: the function
\* returns False and _orchestrate raises RuntimeError; otherwise the tick
\* goes on to the probe.  The wait takes 0.5 s unless a stop is requested;
\* the POST handler that spawned the task has answered by then.
WarmupWait(s) ==
    /\ pc[s] = "warmup"
    /\ ppc[s] = "idle" \/ stop_event[s]
    /\ IF ticks[s] >= WarmupTicks \/ stop_event[s]
         THEN /\ Except(s, IF ticks[s] >= WarmupTicks THEN "deadline" ELSE "other")
              /\ ticks' = [ticks EXCEPT ![s] = 0]
         ELSE /\ pc' = [pc EXCEPT ![s] = "warmup_probe"]
              /\ ticks' = [ticks EXCEPT ![s] = @ + 1]
              /\ UNCHANGED <<state, stop_event, cause>>
    /\ UNCHANGED <<units, ppc, now, last_ok_at>>
    /\ resp' = NoResp
    /\ UNCHANGED <<sessions, created, receiver_name, dir, master, seg, runtimes,
                   xvfb, driver, encoder, receiver_sessions, tdFail, dpc, sh,
                   deleted>>

\* A warmup test that looks for the playlist only.
WarmupSuccessPlaylistOnly(s) == master[s]

\* Whether a warmup tick succeeds: playlist exists and age <= stale_after_ms.
WarmupSuccess(s) == master[s] /\ FreshnessMs(s) = "fresh"

\* _await_initial_playlist, rest of the tick: on success state = "playing",
\* mark_ok() and return True.
WarmupProbe(s) ==
    /\ pc[s] = "warmup_probe"
    /\ IF WarmupSuccess(s)
         THEN /\ state' = [state EXCEPT ![s] = "playing"]
              /\ MarkOk(s)
              /\ ticks' = [ticks EXCEPT ![s] = 0]
              /\ pc' = [pc EXCEPT ![s] = "play"]
         ELSE /\ pc' = [pc EXCEPT ![s] = "warmup"]
              /\ UNCHANGED <<state, last_ok_at, ticks>>
    /\ UNCHANGED <<units, ppc, now, cause>>
    /\ resp' = NoResp
    /\ UNCHANGED <<sessions, created, receiver_name, dir, master, seg, runtimes,
                   stop_event, xvfb, driver, encoder, receiver_sessions, tdFail,
                   dpc, sh, deleted>>

\* A play step that gives the session up when play returns False: it
\* requests the task's stop.
PlayFalseStops(s) ==
    /\ pc[s] = "play"
    /\ \/ /\ receiver_sessions' = DictSet(receiver_sessions, receiver_name[s], s)
          /\ pc' = [pc EXCEPT ![s] = "watchdog"]
          /\ UNCHANGED <<state, stop_event, cause>>
       \/ /\ pc' = [pc EXCEPT ![s] = "watchdog"]
          /\ stop_event' = [stop_event EXCEPT ![s] = TRUE]
          /\ UNCHANGED <<state, cause, receiver_sessions>>
       \/ /\ Except(s, "other")
          /\ UNCHANGED receiver_sessions
    /\ resp' = NoResp
    /\ UNCHANGED <<sessions, created, receiver_name, dir, master, seg, runtimes,
                   xvfb, driver, encoder, tdFail, dpc, sh, deleted>>
    /\ UNCHANGED <<units, ppc, now, last_ok_at, ticks>>

\* _sender.play(...) and the insert at line 185: play returns True (bind),
\* returns False (no binding), or raises.
Play(s) ==
    /\ pc[s] = "play"
    /\ \/ /\ receiver_sessions' = DictSet(receiver_sessions, receiver_name[s], s)
          /\ pc' = [pc EXCEPT ![s] = "watchdog"]
          /\ UNCHANGED <<state, stop_event, cause>>
       \/ /\ pc' = [pc EXCEPT ![s] = "watchdog"]
          /\ UNCHANGED <<state, stop_event, cause, receiver_sessions>>
       \/ /\ Except(s, "other")
          /\ UNCHANGED receiver_sessions
    /\ resp' = NoResp
    /\ UNCHANGED <<sessions, created, receiver_name, dir, master, seg, runtimes,
                   xvfb, driver, encoder, tdFail, dpc, sh, deleted>>
    /\ UNCHANGED <<units, ppc, now, last_ok_at, ticks>>

\* A watchdog loop head that sleeps instead of waiting on the stop signal:
\* it goes on to the loop body whether or not a stop was requested.
WatchdogWaitDeaf(s) ==
    /\ pc[s] = "watchdog"
    /\ pc' = [pc EXCEPT ![s] = "watchdog_probe"]
    /\ resp' = NoResp
    /\ UNCHANGED <<sessions, created, state, receiver_name, dir, master, seg,
                   runtimes, stop_event, xvfb, driver, encoder,
                   receiver_sessions, tdFail, dpc, sh, deleted>>
    /\ UNCHANGED <<units, ppc, now, last_ok_at, ticks, cause>>

\* Watchdog loop head: stop_event.wait(1); a set event ends the loop.
WatchdogWait(s) ==
    /\ pc[s] = "watchdog"
    /\ pc' = [pc EXCEPT ![s] = IF stop_event[s] THEN "td_encoder"
                                               ELSE "watchdog_probe"]
    /\ resp' = NoResp
    /\ UNCHANGED <<sessions, created, state, receiver_name, dir, master, seg,
                   runtimes, stop_event, xvfb, driver, encoder,
                   receiver_sessions, tdFail, dpc, sh, deleted>>
    /\ UNCHANGED <<units, ppc, now, last_ok_at, ticks, cause>>

\* A watchdog loop body that goes on whatever the age is.
WatchdogProbeTolerant(s) ==
    /\ pc[s] = "watchdog_probe"
    /\ pc' = [pc EXCEPT ![s] = "watchdog"]
    /\ IF FreshnessMs(s) = "fresh" THEN MarkOk(s) ELSE UNCHANGED last_ok_at
    /\ UNCHANGED <<state, stop_event, cause>>
    /\ UNCHANGED <<units, ppc, now, ticks>>
    /\ resp' = NoResp
    /\ UNCHANGED <<sessions, created, receiver_name, dir, master, seg, runtimes,
                   xvfb, driver, encoder, receiver_sessions, tdFail, dpc, sh,
                   deleted>>

\* A watchdog loop body that clears last_ok_at before it raises on a stale
\* age.
WatchdogProbeClears(s) ==
    /\ pc[s] = "watchdog_probe"
    /\ IF FreshnessMs(s) = "stale"
         THEN /\ Except(s, "stale")
              /\ last_ok_at' = [last_ok_at EXCEPT ![s] = 0]
         ELSE /\ pc' = [pc EXCEPT ![s] = "watchdog"]
              /\ IF FreshnessMs(s) = "fresh" THEN MarkOk(s)
                                             ELSE UNCHANGED last_ok_at
              /\ UNCHANGED <<state, stop_event, cause>>
    /\ UNCHANGED <<units, ppc, now, ticks>>
    /\ resp' = NoResp
    /\ UNCHANGED <<sessions, created, receiver_name, dir, master, seg, runtimes,
                   xvfb, driver, encoder, receiver_sessions, tdFail, dpc, sh,
                   deleted>>

\* A watchdog loop body that takes an unknown age for a stale one.
WatchdogProbeNoneRaises(s) ==
    /\ pc[s] = "watchdog_probe"
    /\ IF FreshnessMs(s) # "fresh"
         THEN /\ Except(s, "stale")
              /\ UNCHANGED last_ok_at
         ELSE /\ pc' = [pc EXCEPT ![s] = "watchdog"]
              /\ MarkOk(s)
              /\ UNCHANGED <<state, stop_event, cause>>
    /\ UNCHANGED <<units, ppc, now, ticks>>
    /\ resp' = NoResp
    /\ UNCHANGED <<sessions, created, receiver_name, dir, master, seg, runtimes,
                   xvfb, driver, encoder, receiver_sessions, tdFail, dpc, sh,
                   deleted>>

\* Watchdog loop body: an unknown age continues, a fresh age marks the
\* session ok, a stale age raises.
WatchdogProbe(s) ==
    /\ pc[s] = "watchdog_probe"
    /\ IF FreshnessMs(s) = "stale"
         THEN /\ Except(s, "stale")
              /\ UNCHANGED last_ok_at
         ELSE /\ pc' = [pc EXCEPT ![s] = "watchdog"]
              /\ IF FreshnessMs(s) = "fresh" THEN MarkOk(s)
                                             ELSE UNCHANGED last_ok_at
              /\ UNCHANGED <<state, stop_event, cause>>
    /\ UNCHANGED <<units, ppc, now, ticks>>
    /\ resp' = NoResp
    /\ UNCHANGED <<sessions, created, receiver_name, dir, master, seg, runtimes,
                   xvfb, driver, encoder, receiver_sessions, tdFail, dpc, sh,
                   deleted>>

-----------------------------------------------------------------------------
(* The handles' stop operations *)

\* FfmpegHls.stop: nothing without a process; otherwise the handle drops the
\* process before it signals it, so is_running is False whether or not
\* the termination raises.
EncoderStop(s, raises) ==
    /\ raises => encoder[s]
    /\ encoder' = [encoder EXCEPT ![s] = FALSE]

\* PlaywrightDriver.close: page, context, browser, driver.  Only the
\* library's Error is caught: another exception leaves close at once, before
\* the context is dropped (page step) or after it (later steps).
DriverClose(s, raises, kept) ==
    /\ raises => driver[s]
    /\ driver' = [driver EXCEPT ![s] = @ /\ raises /\ kept]

\* Xvfb.stop: as FfmpegHls.stop.
XvfbStop(s, raises) ==
    /\ raises => xvfb[s]
    /\ xvfb' = [xvfb EXCEPT ![s] = FALSE]

\* Record that a teardown step of the task of s raised.
MarkFail(s, raises, step) ==
    tdFail' = [tdFail EXCEPT ![s] = IF ~raises THEN @
                                     ELSE IF @ = "none" THEN step ELSE "multiple"]

-----------------------------------------------------------------------------
(* The finally block of _orchestrate *)

\* with suppress(Exception): runtime.encoder.stop()
TdEncoder(s) ==
    /\ pc[s] = "td_encoder"
    /\ \E raises \in BOOLEAN :
          /\ EncoderStop(s, raises)
          /\ MarkFail(s, raises, "encoder")
    /\ pc' = [pc EXCEPT ![s] = "td_driver"]
    /\ resp' = NoResp
    /\ UNCHANGED <<sessions, created, state, receiver_name, dir, master, seg,
                   runtimes, stop_event, xvfb, driver, receiver_sessions, dpc,
                   sh, deleted>>
    /\ UNCHANGED <<units, ppc, now, last_ok_at, ticks, cause>>

\* with suppress(Exception): runtime.driver.close()
TdDriver(s) ==
    /\ pc[s] = "td_driver"
    /\ \E raises, kept \in BOOLEAN :
          /\ DriverClose(s, raises, kept)
          /\ MarkFail(s, raises, "driver")
    /\ pc' = [pc EXCEPT ![s] = "td_xvfb"]
    /\ resp' = NoResp
    /\ UNCHANGED <<sessions, created, state, receiver_name, dir, master, seg,
                   runtimes, stop_event, xvfb, encoder, receiver_sessions, dpc,
                   sh, deleted>>
    /\ UNCHANGED <<units, ppc, now, last_ok_at, ticks, cause>>

\* with suppress(Exception): runtime.xvfb.stop()
TdXvfb(s) ==
    /\ pc[s] = "td_xvfb"
    /\ \E raises \in BOOLEAN :
          /\ XvfbStop(s, raises)
          /\ MarkFail(s, raises, "xvfb")
    /\ pc' = [pc EXCEPT ![s] = "td_receiver"]
    /\ resp' = NoResp
    /\ UNCHANGED <<sessions, created, state, receiver_name, dir, master, seg,
                   runtimes, stop_event, driver, encoder, receiver_sessions,
                   dpc, sh, deleted>>
    /\ UNCHANGED <<units, ppc, now, last_ok_at, ticks, cause>>

\* _stop_receiver_if_active, lines 129-132: return unless the registry maps
\* the name to this session.
TdReceiverCheck(s) ==
    /\ pc[s] = "td_receiver"
    /\ pc' = [pc EXCEPT ![s] =
                 IF BoundTo(receiver_sessions, receiver_name[s], s)
                   THEN "td_receiver_stop" ELSE "td_state"]
    /\ resp' = NoResp
    /\ UNCHANGED <<sessions, created, state, receiver_name, dir, master, seg,
                   runtimes, stop_event, xvfb, driver, encoder,
                   receiver_sessions, tdFail, dpc, sh, deleted>>
    /\ UNCHANGED <<units, ppc, now, last_ok_at, ticks, cause>>

\* _stop_receiver_if_active, lines 134-136, called bare in the finally block:
\* _sender.stop returns and the name is popped, or it raises and the
\* exception leaves the finally block and the thread.
TdReceiverStop(s) ==
    /\ pc[s] = "td_receiver_stop"
    /\ \/ /\ receiver_sessions' = DictPop(receiver_sessions, receiver_name[s])
          /\ pc' = [pc EXCEPT ![s] = "td_state"]
          /\ UNCHANGED tdFail
       \/ /\ pc' = [pc EXCEPT ![s] = "td_crashed"]
          /\ MarkFail(s, TRUE, "receiver")
          /\ UNCHANGED receiver_sessions
    /\ resp' = NoResp
    /\ UNCHANGED <<sessions, created, state, receiver_name, dir, master, seg,
                   runtimes, stop_event, xvfb, driver, encoder, dpc, sh,
                   deleted>>
    /\ UNCHANGED <<units, ppc, now, last_ok_at, ticks, cause>>

\* if session.state not in {"error", "stopped"}: session.state = "stopped"
TdState(s) ==
    /\ pc[s] = "td_state"
    /\ state' = [state EXCEPT ![s] =
                    IF @ \in {"error", "stopped"} THEN @ ELSE "stopped"]
    /\ pc' = [pc EXCEPT ![s] = "td_pop"]
    /\ resp' = NoResp
    /\ UNCHANGED <<sessions, created, receiver_name, dir, master, seg, runtimes,
                   stop_event, xvfb, driver, encoder, receiver_sessions, tdFail,
                   dpc, sh, deleted>>
    /\ UNCHANGED <<units, ppc, now, last_ok_at, ticks, cause>>

\* _runtimes.pop(session.id, None), and the thread ends.
TdPop(s) ==
    /\ pc[s] = "td_pop"
    /\ runtimes' = runtimes \ {s}
    /\ pc' = [pc EXCEPT ![s] = "done"]
    /\ resp' = NoResp
    /\ UNCHANGED <<sessions, created, state, receiver_name, dir, master, seg,
                   stop_event, xvfb, driver, encoder, receiver_sessions, tdFail,
                   dpc, sh, deleted>>
    /\ UNCHANGED <<units, ppc, now, last_ok_at, ticks, cause>>

\* The task has ended: by returning, or by an exception that left the thread.
Terminated(s) == pc[s] \in {"done", "crashed", "td_crashed"}

\* The task is inside a call with no time bound below the 10 s of a join:
\* driver.launch (navigation timeout 30 s), _sender.play and _sender.stop
\* (network), driver.close.  The other steps end within a tick.
SlowCall(s) == pc[s] \in {"launch", "play", "td_driver", "td_receiver_stop"}

\* thread.join(timeout=10) returns: the thread has ended, or the timeout
\* expired with the thread inside a slow call.
JoinReturns(s) == Terminated(s) \/ SlowCall(s)

-----------------------------------------------------------------------------
(* SessionManager.delete / Session.cleanup *)

\* SessionManager.delete up to the unlink loop of Session.cleanup: pop the
\* record; if it was there and its directory exists, unlink what is in it.
CleanupUnlink(s) ==
    /\ sessions' = sessions \ {s}
    /\ IF s \in sessions /\ dir[s]
         THEN /\ master' = [master EXCEPT ![s] = FALSE]
              /\ seg' = [seg EXCEPT ![s] = "none"]
         ELSE UNCHANGED <<master, seg>>

\* Session.cleanup, lines 133-138: rmdir, which fails (and is tolerated) when
\* the directory holds a file again.
CleanupRmdir(s) ==
    dir' = [dir EXCEPT ![s] = @ /\ (master[s] \/ seg[s] # "none")]

-----------------------------------------------------------------------------
(* GET /sessions/{sid}/status *)

\* status: 404 for an id not in the registry, else the record's state.
status(s) ==
    /\ Serving
    /\ resp' = IF s \in sessions
                 THEN Response("status", s, 200, state[s],
                               IF master[s] THEN HlsMasterUrlPath(s) ELSE Null)
                 ELSE Response("status", s, 404, "none", Null)
    /\ UNCHANGED <<core, units>>

-----------------------------------------------------------------------------
(* GET /sessions *)

\* list_sessions: one SessionStatus per record of the registry.
list_sessions ==
    /\ Serving
    /\ resp' = [op |-> "list", sid |-> 0, code |-> 200, state |-> "none",
                hls_url |-> Null,
                items |-> { [sid |-> s, state |-> state[s],
                             hls_url |-> IF master[s] THEN HlsMasterUrlPath(s)
                                                      ELSE Null] : s \in sessions }]
    /\ UNCHANGED <<core, units>>

-----------------------------------------------------------------------------
(* DELETE /sessions/{sid}: stop *)

\* Lines 291-293: unknown id.
StopNotFound(s, h) ==
    /\ Serving
    /\ dpc[s][h] = "idle"
    /\ s \notin sessions
    /\ resp' = Response("delete", s, 404, "none", Null)
    /\ UNCHANGED <<core, units>>

\* Lines 295-298: state = "stopping"; with a runtime, request_stop().
StopBegin(s, h) ==
    /\ Serving
    /\ dpc[s][h] = "idle"
    /\ s \in sessions
    /\ state' = [state EXCEPT ![s] = "stopping"]
    /\ IF s \in runtimes
         THEN /\ stop_event' = [stop_event EXCEPT ![s] = TRUE]
              /\ dpc' = [dpc EXCEPT ![s][h] = "receiver"]
         ELSE /\ dpc' = [dpc EXCEPT ![s][h] = "delete"]
              /\ UNCHANGED stop_event
    /\ resp' = NoResp
    /\ UNCHANGED <<sessions, created, receiver_name, dir, master, seg, runtimes,
                   xvfb, driver, encoder, receiver_sessions, pc, tdFail, sh,
                   deleted>>
    /\ UNCHANGED <<units, ppc, now, last_ok_at, ticks, cause>>

\* Lines 299-304, _stop_receiver_if_active up to line 132.
StopReceiverCheck(s, h) ==
    /\ dpc[s][h] = "receiver"
    /\ dpc' = [dpc EXCEPT ![s][h] =
                  IF BoundTo(receiver_sessions, receiver_name[s], s)
                    THEN "receiver_stop" ELSE "join"]
    /\ resp' = NoResp
    /\ UNCHANGED <<sessions, created, state, receiver_name, dir, master, seg,
                   runtimes, stop_event, xvfb, driver, encoder,
                   receiver_sessions, pc, tdFail, sh, deleted>>
    /\ UNCHANGED <<units, ppc, now, last_ok_at, ticks, cause>>

\* _stop_receiver_if_active, lines 134-136: _sender.stop returns and the name
\* is popped, or it raises and the handler answers 500.
StopReceiverStop(s, h) ==
    /\ dpc[s][h] = "receiver_stop"
    /\ \/ /\ receiver_sessions' = DictPop(receiver_sessions, receiver_name[s])
          /\ dpc' = [dpc EXCEPT ![s][h] = "join"]
          /\ resp' = NoResp
       \/ /\ dpc' = [dpc EXCEPT ![s][h] = "idle"]
          /\ resp' = Response("delete", s, 500, "none", Null)
          /\ UNCHANGED receiver_sessions
    /\ UNCHANGED <<sessions, created, state, receiver_name, dir, master, seg,
                   runtimes, stop_event, xvfb, driver, encoder, pc, tdFail, sh,
                   deleted>>
    /\ UNCHANGED <<units, ppc, now, last_ok_at, ticks, cause>>

\* Lines 305-307: thread.join(timeout=10).
StopJoin(s, h) ==
    /\ dpc[s][h] = "join"
    /\ JoinReturns(s)
    /\ dpc' = [dpc EXCEPT ![s][h] = "delete"]
    /\ resp' = NoResp
    /\ UNCHANGED <<sessions, created, state, receiver_name, dir, master, seg,
                   runtimes, stop_event, xvfb, driver, encoder,
                   receiver_sessions, pc, tdFail, sh, deleted>>
    /\ UNCHANGED <<units, ppc, now, last_ok_at, ticks, cause>>

\* Line 309, first half: _sessions.delete pops the record and unlinks.
StopDelete(s, h) ==
    /\ dpc[s][h] = "delete"
    /\ CleanupUnlink(s)
    /\ dpc' = [dpc EXCEPT ![s][h] = "rmdir"]
    /\ resp' = NoResp
    /\ UNCHANGED <<created, state, receiver_name, dir, runtimes, stop_event,
                   xvfb, driver, encoder, receiver_sessions, pc, tdFail, sh,
                   deleted>>
    /\ UNCHANGED <<units, ppc, now, last_ok_at, ticks, cause>>

\* Line 309, second half, and line 310: rmdir, then _runtimes.pop(sid, None).
StopRmdir(s, h) ==
    /\ dpc[s][h] = "rmdir"
    /\ CleanupRmdir(s)
    /\ runtimes' = runtimes \ {s}
    /\ dpc' = [dpc EXCEPT ![s][h] = "receiver2"]
    /\ resp' = NoResp
    /\ UNCHANGED <<sessions, created, state, receiver_name, master, seg,
                   stop_event, xvfb, driver, encoder, receiver_sessions, pc,
                   tdFail, sh, deleted>>
    /\ UNCHANGED <<units, ppc, now, last_ok_at, ticks, cause>>

\* Lines 311-318: the second _stop_receiver_if_active up to line 132; with no
\* binding of this session the handler answers 200.
StopReceiverCheck2(s, h) ==
    /\ dpc[s][h] = "receiver2"
    /\ IF BoundTo(receiver_sessions, receiver_name[s], s)
         THEN /\ dpc' = [dpc EXCEPT ![s][h] = "receiver_stop2"]
              /\ resp' = NoResp
              /\ UNCHANGED deleted
         ELSE /\ dpc' = [dpc EXCEPT ![s][h] = "idle"]
              /\ resp' = Response("delete", s, 200, "none", Null)
              /\ deleted' = [deleted EXCEPT ![s] = TRUE]
    /\ UNCHANGED <<sessions, created, state, receiver_name, dir, master, seg,
                   runtimes, stop_event, xvfb, driver, encoder,
                   receiver_sessions, pc, tdFail, sh>>
    /\ UNCHANGED <<units, ppc, now, last_ok_at, ticks, cause>>

\* Lines 311-318, lines 134-136 of the second call, and the answer.
StopReceiverStop2(s, h) ==
    /\ dpc[s][h] = "receiver_stop2"
    /\ dpc' = [dpc EXCEPT ![s][h] = "idle"]
    /\ \/ /\ receiver_sessions' = DictPop(receiver_sessions, receiver_name[s])
          /\ resp' = Response("delete", s, 200, "none", Null)
          /\ deleted' = [deleted EXCEPT ![s] = TRUE]
       \/ /\ resp' = Response("delete", s, 500, "none", Null)
          /\ UNCHANGED <<receiver_sessions, deleted>>
    /\ UNCHANGED <<sessions, created, state, receiver_name, dir, master, seg,
                   runtimes, stop_event, xvfb, driver, encoder, pc, tdFail, sh>>
    /\ UNCHANGED <<units, ppc, now, last_ok_at, ticks, cause>>

-----------------------------------------------------------------------------
(* _lifespan / _shutdown_sessions *)

\* The first session of the snapshot still to be shut down (dict order is
\* creation order).
First(S) == CHOOSE s \in S : \A t \in S : s <= t

\* _lifespan's finally: the server has stopped serving (no handler is in
\* flight); _shutdown_sessions snapshots the registry.
ShutdownBegin ==
    /\ sh.pc = "idle"
    /\ \A s \in Sids : ppc[s] = "idle" /\ \A h \in Handlers : dpc[s][h] = "idle"
    /\ sh' = [pc |-> "next", cur |-> 0, todo |-> sessions]
    /\ resp' = NoResp
    /\ UNCHANGED <<sessions, created, state, receiver_name, dir, master, seg,
                   runtimes, stop_event, xvfb, driver, encoder,
                   receiver_sessions, pc, tdFail, dpc, deleted>>
    /\ UNCHANGED <<units, ppc, now, last_ok_at, ticks, cause>>

\* Lines 352-355: next session of the snapshot; pop its runtime and, if there
\* was one, request_stop().
ShutdownNext ==
    /\ sh.pc = "next"
    /\ IF sh.todo = {}
         THEN /\ sh' = [sh EXCEPT !.pc = "done", !.cur = 0]
              /\ UNCHANGED <<runtimes, stop_event>>
         ELSE LET s == First(sh.todo) IN
              /\ runtimes' = runtimes \ {s}
              /\ stop_event' = [stop_event EXCEPT ![s] = @ \/ s \in runtimes]
              /\ sh' = [pc |-> IF s \in runtimes THEN "join" ELSE "receiver",
                        cur |-> s, todo |-> sh.todo \ {s}]
    /\ resp' = NoResp
    /\ UNCHANGED <<sessions, created, state, receiver_name, dir, master, seg,
                   xvfb, driver, encoder, receiver_sessions, pc, tdFail, dpc,
                   deleted>>
    /\ UNCHANGED <<units, ppc, now, last_ok_at, ticks, cause>>

\* Lines 356-358: thread.join(timeout=10), skipped for a thread not alive.
ShutdownJoin ==
    /\ sh.pc = "join"
    /\ JoinReturns(sh.cur)
    /\ sh' = [sh EXCEPT !.pc = "encoder"]
    /\ resp' = NoResp
    /\ UNCHANGED <<sessions, created, state, receiver_name, dir, master, seg,
                   runtimes, stop_event, xvfb, driver, encoder,
                   receiver_sessions, pc, tdFail, dpc, deleted>>
    /\ UNCHANGED <<units, ppc, now, last_ok_at, ticks, cause>>

\* Lines 359-360: with suppress(Exception): runtime.encoder.stop()
ShutdownEncoder ==
    /\ sh.pc = "encoder"
    /\ \E raises \in BOOLEAN : EncoderStop(sh.cur, raises)
    /\ sh' = [sh EXCEPT !.pc = "driver"]
    /\ resp' = NoResp
    /\ UNCHANGED <<sessions, created, state, receiver_name, dir, master, seg,
                   runtimes, stop_event, xvfb, driver, receiver_sessions, pc,
                   tdFail, dpc, deleted>>
    /\ UNCHANGED <<units, ppc, now, last_ok_at, ticks, cause>>

\* Lines 361-362: with suppress(Exception): runtime.driver.close()
ShutdownDriver ==
    /\ sh.pc = "driver"
    /\ \E raises, kept \in BOOLEAN : DriverClose(sh.cur, raises, kept)
    /\ sh' = [sh EXCEPT !.pc = "xvfb"]
    /\ resp' = NoResp
    /\ UNCHANGED <<sessions, created, state, receiver_name, dir, master, seg,
                   runtimes, stop_event, xvfb, encoder, receiver_sessions, pc,
                   tdFail, dpc, deleted>>
    /\ UNCHANGED <<units, ppc, now, last_ok_at, ticks, cause>>

\* Lines 363-364: with suppress(Exception): runtime.xvfb.stop()
ShutdownXvfb ==
    /\ sh.pc = "xvfb"
    /\ \E raises \in BOOLEAN : XvfbStop(sh.cur, raises)
    /\ sh' = [sh EXCEPT !.pc = "receiver"]
    /\ resp' = NoResp
    /\ UNCHANGED <<sessions, created, state, receiver_name, dir, master, seg,
                   runtimes, stop_event, driver, encoder, receiver_sessions, pc,
                   tdFail, dpc, deleted>>
    /\ UNCHANGED <<units, ppc, now, last_ok_at, ticks, cause>>

\* Lines 365-372, _stop_receiver_if_active up to line 132.
ShutdownReceiverCheck ==
    /\ sh.pc = "receiver"
    /\ sh' = [sh EXCEPT !.pc =
                 IF BoundTo(receiver_sessions, receiver_name[sh.cur], sh.cur)
                   THEN "receiver_stop" ELSE "delete"]
    /\ resp' = NoResp
    /\ UNCHANGED <<sessions, created, state, receiver_name, dir, master, seg,
                   runtimes, stop_event, xvfb, driver, encoder,
                   receiver_sessions, pc, tdFail, dpc, deleted>>
    /\ UNCHANGED <<units, ppc, now, last_ok_at, ticks, cause>>

\* Lines 366-372, lines 134-136 under suppress(Exception): _sender.stop
\* returns and the name is popped, or it raises and the entry stays.
ShutdownReceiverStop ==
    /\ sh.pc = "receiver_stop"
    /\ \/ receiver_sessions' = DictPop(receiver_sessions, receiver_name[sh.cur])
       \/ UNCHANGED receiver_sessions
    /\ sh' = [sh EXCEPT !.pc = "delete"]
    /\ resp' = NoResp
    /\ UNCHANGED <<sessions, created, state, receiver_name, dir, master, seg,
                   runtimes, stop_event, xvfb, driver, encoder, pc, tdFail, dpc,
                   deleted>>
    /\ UNCHANGED <<units, ppc, now, last_ok_at, ticks, cause>>

\* Line 373, first half: _sessions.delete pops the record and unlinks.
ShutdownDelete ==
    /\ sh.pc = "delete"
    /\ CleanupUnlink(sh.cur)
    /\ sh' = [sh EXCEPT !.pc = "rmdir"]
    /\ resp' = NoResp
    /\ UNCHANGED <<created, state, receiver_name, dir, runtimes, stop_event,
                   xvfb, driver, encoder, receiver_sessions, pc, tdFail, dpc,
                   deleted>>
    /\ UNCHANGED <<units, ppc, now, last_ok_at, ticks, cause>>

\* Line 373, second half: rmdir; on to the next session.
ShutdownRmdir ==
    /\ sh.pc = "rmdir"
    /\ CleanupRmdir(sh.cur)
    /\ sh' = [sh EXCEPT !.pc = "next", !.cur = 0]
    /\ resp' = NoResp
    /\ UNCHANGED <<sessions, created, state, receiver_name, master, seg,
                   runtimes, stop_event, xvfb, driver, encoder,
                   receiver_sessions, pc, tdFail, dpc, deleted>>
    /\ UNCHANGED <<units, ppc, now, last_ok_at, ticks, cause>>

-----------------------------------------------------------------------------
(* The encoder process and the clock *)

\* The running encoder writes into the session directory: the playlist, or
\* a new segment.
EncoderWrites(s) ==
    /\ encoder[s]
    /\ dir[s]
    /\ \/ /\ ~master[s]
          /\ master' = [master EXCEPT ![s] = TRUE]
          /\ UNCHANGED seg
       \/ /\ seg[s] # "fresh"
          /\ seg' = [seg EXCEPT ![s] = "fresh"]
          /\ UNCHANGED master
    /\ resp' = NoResp
    /\ UNCHANGED <<sessions, created, state, receiver_name, dir, runtimes,
                   stop_event, xvfb, driver, encoder, receiver_sessions, pc,
                   tdFail, dpc, sh, deleted>>
    /\ UNCHANGED <<units, ppc, now, last_ok_at, ticks, cause>>

\* Time passes without a new segment: the newest segment's age exceeds
\* stale_after_ms (8 s).  The encoder is started right before the warmup
\* loop, which reads the directory every 0.5 s and ends at the first fresh
\* segment it finds: no segment reaches that age while the task is in the
\* loop.
SegmentAges(s) ==
    /\ seg[s] = "fresh"
    /\ pc[s] \notin {"warmup", "warmup_probe"}
    /\ seg' = [seg EXCEPT ![s] = "stale"]
    /\ resp' = NoResp
    /\ UNCHANGED <<sessions, created, state, receiver_name, dir, master,
                   runtimes, stop_event, xvfb, driver, encoder,
                   receiver_sessions, pc, tdFail, dpc, sh, deleted>>
    /\ UNCHANGED <<units, ppc, now, last_ok_at, ticks, cause>>

\* The files of a session directory are removed from outside the server
\* (the sessions root is an ordinary directory): the playlist and the
\* segments are gone until the encoder writes again.
OutputLost(s) ==
    /\ dir[s]
    /\ master[s] \/ seg[s] # "none"
    /\ master' = [master EXCEPT ![s] = FALSE]
    /\ seg' = [seg EXCEPT ![s] = "none"]
    /\ resp' = NoResp
    /\ UNCHANGED <<sessions, created, state, receiver_name, dir, runtimes,
                   stop_event, xvfb, driver, encoder, receiver_sessions, pc,
                   tdFail, dpc, sh, deleted>>
    /\ UNCHANGED <<units, ppc, now, last_ok_at, ticks, cause>>

\* The wall clock advances.
Tick ==
    /\ now < MaxClock
    /\ now' = now + 1
    /\ resp' = NoResp
    /\ UNCHANGED <<sessions, created, state, receiver_name, dir, master, seg,
                   runtimes, stop_event, xvfb, driver, encoder,
                   receiver_sessions, pc, tdFail, dpc, sh, deleted, last_ok_at,
                   ticks, cause, ppc, units>>

-----------------------------------------------------------------------------
Task(s) ==
    \/ Imprint(s) \/ XvfbStart(s) \/ Launch(s) \/ EncoderStart(s)
    \/ WarmupWait(s) \/ WarmupProbe(s) \/ Play(s)
    \/ WatchdogWait(s) \/ WatchdogProbe(s)
    \/ TdEncoder(s) \/ TdDriver(s) \/ TdXvfb(s)
    \/ TdReceiverCheck(s) \/ TdReceiverStop(s) \/ TdState(s) \/ TdPop(s)

Stop(s, h) ==
    \/ StopNotFound(s, h) \/ StopBegin(s, h) \/ StopReceiverCheck(s, h)
    \/ StopReceiverStop(s, h) \/ StopJoin(s, h) \/ StopDelete(s, h)
    \/ StopRmdir(s, h) \/ StopReceiverCheck2(s, h) \/ StopReceiverStop2(s, h)

Shutdown ==
    \/ ShutdownBegin \/ ShutdownNext \/ ShutdownJoin \/ ShutdownEncoder
    \/ ShutdownDriver \/ ShutdownXvfb \/ ShutdownReceiverCheck
    \/ ShutdownReceiverStop \/ ShutdownDelete \/ ShutdownRmdir

\* The control plane with all its handlers and the shutdown hook, the tasks
\* of the sessions it serves, and the encoder processes.
Next ==
    \/ \E s \in 1..MaxServed, r \in Receivers : start_session(s, r)
    \/ \E s \in Sids : StartRespond(s)
    \/ \E s \in Sids : status(s)
    \/ list_sessions
    \/ \E s \in Sids : Stop(s, 1)
    \/ \E s \in Sids : Task(s)
    \/ \E s \in Sids : EncoderWrites(s) \/ SegmentAges(s)
    \/ Shutdown

Spec == Init /\ [][Next]_vars

\* The freshness probe on a directory: any playlist and up to two segments
\* written before the probe reads the clock.
InitProbe ==
    /\ InitCore
    /\ probe \in { p \in [now : Instants, master : Instants \cup {None},
                           segments : SUBSET Instants, report : {NoReport}] :
                      /\ p.master <= p.now
                      /\ \A i \in p.segments : i <= p.now
                      /\ Cardinality(p.segments) <= MaxSegments }
    /\ drv = NoLaunch
    /\ cmd = NoCommand
    /\ snd = NoCall
    /\ xv = NoXvfb
    /\ ff = NoEncoder

\* SessionFreshness(session).evaluate() on the directory.
Evaluate ==
    /\ ~probe.report.made
    /\ probe' = [probe EXCEPT !.report = evaluate(probe.now, probe.master, probe.segments)]
    /\ UNCHANGED <<core, resp, drv, cmd, snd, xv, ff>>

SpecProbe == InitProbe /\ [][Evaluate]_vars

-----------------------------------------------------------------------------
(* PlaywrightDriver.launch, step by step *)

\* A controller, fresh or launched before (prior), and the arguments of a
\* launch call on it.
InitLaunch ==
    /\ InitCore
    /\ probe = NoProbe
    /\ cmd = NoCommand
    /\ snd = NoCall
    /\ xv = NoXvfb
    /\ ff = NoEncoder
    /\ drv \in { [NoLaunch EXCEPT !.pc = "call", !.cookies = c,
                                  !.cookies_path = p, !.user_data_dir = u,
                                  !.prior = b, !.manager = b, !.playwright = b,
                                  !.browser = b, !.context = b, !.page = b] :
                    c \in CookieArgs, p \in PathArgs, u \in BOOLEAN,
                    b \in BOOLEAN }

\* The call has ended: it raised exc, or returned the page.
LaunchEnds(d, res) == [d EXCEPT !.pc = "done", !.result = res]

\* launch, lines 74-78: the two argument checks.
LaunchCheck ==
    /\ drv.pc = "call"
    /\ drv' = IF drv.context
                THEN LaunchEnds(drv, "RuntimeError")
              ELSE IF CookiesTruthy(drv.cookies) /\ PathTruthy(drv.cookies_path)
                THEN LaunchEnds(drv, "ValueError")
                ELSE [drv EXCEPT !.pc = "start"]
    /\ UNCHANGED <<core, resp, probe, cmd, snd, xv, ff>>

\* Lines 80-82: self._manager = sync_playwright(), then its start(), which
\* spawns the driver process or raises.
LaunchStart ==
    /\ drv.pc = "start"
    /\ \/ drv' = [drv EXCEPT !.manager = TRUE, !.playwright = TRUE,
                             !.pc = "context"]
       \/ drv' = LaunchEnds([drv EXCEPT !.manager = TRUE], "Error")
    /\ UNCHANGED <<core, resp, probe, cmd, snd, xv, ff>>

\* Lines 84-97: a persistent context, or a browser and a context in it; each
\* of the calls may raise.
LaunchContext ==
    /\ drv.pc = "context"
    /\ \/ drv' = [drv EXCEPT !.browser = ~drv.user_data_dir, !.context = TRUE,
                             !.pc = "cookies"]
       \/ drv' = LaunchEnds(drv, "Error")
       \/ /\ ~drv.user_data_dir
          /\ drv' = LaunchEnds([drv EXCEPT !.browser = TRUE], "Error")
    /\ UNCHANGED <<core, resp, probe, cmd, snd, xv, ff>>

\* Lines 102-110: the cookie payload, from the file when a path is given,
\* else from the list; _load_cookies_from_file raises when there is no file.
LaunchCookies ==
    /\ drv.pc = "cookies"
    /\ drv' = IF drv.cookies_path = "missing"
                THEN LaunchEnds(drv, "FileNotFoundError")
                ELSE [drv EXCEPT !.pc = "page"]
    /\ UNCHANGED <<core, resp, probe, cmd, snd, xv, ff>>

\* Lines 112-117: new_page, the init script, and the navigation, which
\* returns or raises (timeout) with the page in place.
LaunchPage ==
    /\ drv.pc = "page"
    /\ \/ drv' = LaunchEnds([drv EXCEPT !.page = TRUE], "page")
       \/ drv' = LaunchEnds([drv EXCEPT !.page = TRUE], "Error")
       \/ drv' = LaunchEnds(drv, "Error")
    /\ UNCHANGED <<core, resp, probe, cmd, snd, xv, ff>>

NextLaunch ==
    \/ LaunchCheck \/ LaunchStart \/ LaunchContext \/ LaunchCookies
    \/ LaunchPage

SpecLaunch == InitLaunch /\ [][NextLaunch]_vars

-----------------------------------------------------------------------------
(* PlaywrightDriver.close, step by step, after a launch call has ended *)

\* close is called: after the launch ended (returned or raised), or again.
CloseBegin ==
    /\ drv.pc \in {"done", "closed"}
    /\ drv.closes < MaxCloses
    /\ drv' = [drv EXCEPT !.pc = "close_page", !.close = "none",
                          !.steps = <<>>]
    /\ UNCHANGED <<core, resp, probe, cmd, snd, xv, ff>>

\* One try/except Error/finally block of close on the field named what: the
\* call is made when the field is set, the finally clause clears the field,
\* and an exception other than Error leaves close after the finally clause.
CloseStep(d, what, set, out, next) ==
    LET cleared == [d EXCEPT ![what] = FALSE,
                             !.steps = IF set THEN Append(@, what) ELSE @]
    IN  IF set /\ out = "other"
          THEN [cleared EXCEPT !.pc = "closed", !.close = "raised",
                               !.closes = @ + 1]
          ELSE [cleared EXCEPT !.pc = next]

\* Lines 122-129: the page.
ClosePage ==
    /\ drv.pc = "close_page"
    /\ \E out \in CloseOutcomes :
          /\ ~drv.page => out = "ok"
          /\ drv' = CloseStep(drv, "page", drv.page, out, "close_context")
    /\ UNCHANGED <<core, resp, probe, cmd, snd, xv, ff>>

\* Lines 131-138: the context.
CloseContext ==
    /\ drv.pc = "close_context"
    /\ \E out \in CloseOutcomes :
          /\ ~drv.context => out = "ok"
          /\ drv' = CloseStep(drv, "context", drv.context, out, "close_browser")
    /\ UNCHANGED <<core, resp, probe, cmd, snd, xv, ff>>

\* Lines 140-147: the browser.
CloseBrowser ==
    /\ drv.pc = "close_browser"
    /\ \E out \in CloseOutcomes :
          /\ ~drv.browser => out = "ok"
          /\ drv' = CloseStep(drv, "browser", drv.browser, out, "close_driver")
    /\ UNCHANGED <<core, resp, probe, cmd, snd, xv, ff>>

\* Lines 149-157: the driver, stopped through the manager, and only when
\* both _playwright and _manager are set; close then returns.
CloseDriver ==
    /\ drv.pc = "close_driver"
    /\ IF drv.playwright /\ drv.manager
         THEN \E out \in CloseOutcomes :
                 drv' = [drv EXCEPT !.playwright = FALSE, !.manager = FALSE,
                                    !.steps = Append(@, "driver"),
                                    !.pc = "closed", !.closes = @ + 1,
                                    !.close = IF out = "other" THEN "raised"
                                                               ELSE "returned"]
         ELSE drv' = [drv EXCEPT !.pc = "closed", !.closes = @ + 1,
                                 !.close = "returned"]
    /\ UNCHANGED <<core, resp, probe, cmd, snd, xv, ff>>

NextClose ==
    \/ NextLaunch
    \/ CloseBegin \/ ClosePage \/ CloseContext \/ CloseBrowser \/ CloseDriver

SpecClose == InitLaunch /\ [][NextClose]_vars

-----------------------------------------------------------------------------
(* FfmpegHls.build_command, called twice on one handle *)

\* An encoder handle with a profile of any frame rate and bitrate string.
InitCommand ==
    /\ InitCore
    /\ probe = NoProbe
    /\ drv = NoLaunch
    /\ snd = NoCall
    /\ xv = NoXvfb
    /\ ff = NoEncoder
    /\ cmd \in { [NoCommand EXCEPT !.pc = "profile", !.profile = pr] :
                    pr \in [fps : FpsValues, video_bitrate : Bitrates,
                            audio : BOOLEAN] }

\* enc.build_command(), the first call and the second.
BuildCommand ==
    /\ cmd.pc \in {"profile", "built"}
    /\ cmd' = IF cmd.pc = "profile"
                THEN [cmd EXCEPT !.pc = "built",
                                 !.first = build_command(cmd.profile)]
                ELSE [cmd EXCEPT !.pc = "built twice",
                                 !.second = build_command(cmd.profile)]
    /\ UNCHANGED <<core, resp, probe, drv, snd, xv, ff>>

SpecCommand == InitCommand /\ [][BuildCommand]_vars

-----------------------------------------------------------------------------
(* A call on a Sender *)

\* A Sender with any client, the legacy direct client (FCAST_Client)
\* installed or not, any devices on the network, and a call about to be made.
InitSender ==
    /\ InitCore
    /\ probe = NoProbe
    /\ drv = NoLaunch
    /\ cmd = NoCommand
    /\ xv = NoXvfb
    /\ ff = NoEncoder
    /\ snd \in { [NoCall EXCEPT !.pc = "call", !.client = c, !.legacy = l,
                                !.devices = ds, !.op = o,
                                !.receiver_name = r, !.host = h] :
                    c \in Clients, l \in BOOLEAN, ds \in DeviceLists,
                    o \in {"discover", "play", "stop"}, r \in Receivers,
                    h \in Hosts }

\* sender.discover()
SenderDiscover ==
    /\ snd.pc = "call" /\ snd.op = "discover"
    /\ \/ snd' = [snd EXCEPT !.pc = "done", !.receivers = discover(snd)]
       \/ /\ CanDiscover(snd)
          /\ snd' = [snd EXCEPT !.pc = "done", !.raised = TRUE]
    /\ UNCHANGED <<core, resp, probe, drv, cmd, xv, ff>>

\* sender.play(...) or sender.stop(...): the call returns, or the client
\* raises in the command it was given (or in the discovery).
SenderSend ==
    /\ snd.pc = "call" /\ snd.op \in {"play", "stop"}
    /\ \/ snd' = [snd EXCEPT !.pc = "done", !.ret = send(snd, snd.op).ret,
                             !.issued = send(snd, snd.op).issued]
       \/ /\ send(snd, snd.op).issued # <<>>
          /\ snd' = [snd EXCEPT !.pc = "done", !.raised = TRUE,
                                !.issued = send(snd, snd.op).issued]
       \/ /\ CanDiscover(snd)
          /\ snd' = [snd EXCEPT !.pc = "done", !.raised = TRUE]
    /\ UNCHANGED <<core, resp, probe, drv, cmd, xv, ff>>

NextSender == SenderDiscover \/ SenderSend

SpecSender == InitSender /\ [][NextSender]_vars

-----------------------------------------------------------------------------
(* Calls on Xvfb handles sharing one process environment *)

\* Handles on any displays, none started, and any DISPLAY in the environment.
InitXvfb ==
    /\ InitCore
    /\ probe = NoProbe
    /\ drv = NoLaunch
    /\ cmd = NoCommand
    /\ snd = NoCall
    /\ ff = NoEncoder
    /\ xv \in { [NoXvfb EXCEPT !.pc = "run", !.display = d, !.DISPLAY = e] :
                   d \in [XvfbHandles -> Displays], e \in DisplayEnv }

\* A start that spawns a process whether or not the handle has a live one.
Xvfb_startAlways(h) ==
    /\ xv.pc = "run"
    /\ LET called == [xv EXCEPT !.op = "start", !.h = h, !.raised = FALSE]
       IN  \/ xv' = [called EXCEPT !.raised = TRUE]
           \/ /\ xv.spawned < MaxSpawned
              /\ LET p == xv.spawned + 1
                 IN  xv' = [called EXCEPT !.spawned = p, !.proc[h] = p,
                                          !.alive = @ \cup {p}, !.owner[p] = h,
                                          !.DISPLAY = xv.display[h]]
    /\ UNCHANGED <<core, resp, probe, drv, cmd, snd, ff>>

\* Xvfb.start: return when the handle's process is alive (line 31);
\* otherwise Popen, which raises or spawns the process that _proc then
\* refers to (49), and os.environ["DISPLAY"] = self.display (54).
Xvfb_start(h) ==
    /\ xv.pc = "run"
    /\ LET called == [xv EXCEPT !.op = "start", !.h = h, !.raised = FALSE]
       IN  IF Xvfb_is_running(xv, h)
             THEN xv' = called
             ELSE \/ xv' = [called EXCEPT !.raised = TRUE]
                  \/ /\ xv.spawned < MaxSpawned
                     /\ LET p == xv.spawned + 1
                        IN  xv' = [called EXCEPT !.spawned = p, !.proc[h] = p,
                                                 !.alive = @ \cup {p},
                                                 !.owner[p] = h,
                                                 !.DISPLAY = xv.display[h]]
    /\ UNCHANGED <<core, resp, probe, drv, cmd, snd, ff>>

\* A stop that removes DISPLAY whatever its value.
Xvfb_stopUnsets(h) ==
    /\ xv.pc = "run"
    /\ LET called == [xv EXCEPT !.op = "stop", !.h = h, !.raised = FALSE]
       IN  IF xv.proc[h] = 0
             THEN xv' = called
             ELSE xv' = [called EXCEPT !.proc[h] = 0,
                                       !.alive = @ \ {xv.proc[h]},
                                       !.DISPLAY = "unset"]
    /\ UNCHANGED <<core, resp, probe, drv, cmd, snd, ff>>

\* Xvfb.stop: return when _proc is None (line 60); otherwise drop the
\* reference (63), end the process if it has not exited (SIGTERM, wait, kill
\* as the fallback, 64-71), and pop DISPLAY if it equals self.display (72-73).
Xvfb_stop(h) ==
    /\ xv.pc = "run"
    /\ LET called == [xv EXCEPT !.op = "stop", !.h = h, !.raised = FALSE]
       IN  IF xv.proc[h] = 0
             THEN xv' = called
             ELSE xv' = [called EXCEPT !.proc[h] = 0,
                                       !.alive = @ \ {xv.proc[h]},
                                       !.DISPLAY = IF @ = xv.display[h]
                                                     THEN "unset" ELSE @]
    /\ UNCHANGED <<core, resp, probe, drv, cmd, snd, ff>>

\* A display server exits by itself (its display is taken, or it crashed):
\* poll() of its Popen object is no longer None.
Xvfb_exit(p) ==
    /\ xv.pc = "run"
    /\ p \in xv.alive
    /\ xv' = [xv EXCEPT !.alive = @ \ {p}, !.op = "exit", !.h = xv.owner[p],
                        !.raised = FALSE]
    /\ UNCHANGED <<core, resp, probe, drv, cmd, snd, ff>>

NextXvfb ==
    \/ \E h \in XvfbHandles : Xvfb_start(h) \/ Xvfb_stop(h)
    \/ \E p \in Pids : Xvfb_exit(p)

SpecXvfb == InitXvfb /\ [][NextXvfb]_vars

-----------------------------------------------------------------------------
(* Calls on the FfmpegHls handles of a server *)

\* Handles never started, each with its output directory made by
\* SessionManager.create or not there.
InitEncoder ==
    /\ InitCore
    /\ probe = NoProbe
    /\ drv = NoLaunch
    /\ cmd = NoCommand
    /\ snd = NoCall
    /\ xv = NoXvfb
    /\ ff \in { [NoEncoder EXCEPT !.pc = "run", !.out_dir = d] :
                   d \in [EncoderHandles -> BOOLEAN] }

\* A start that replaces a running process instead of refusing.
FfmpegHls_startAgain(e) ==
    /\ ff.pc = "run"
    /\ LET called == [ff EXCEPT !.op = "start", !.e = e, !.raised = "none"]
       IN  \/ ff' = [called EXCEPT !.raised = "OSError"]
           \/ /\ ff.spawned < MaxSpawned
              /\ LET p == ff.spawned + 1
                 IN  ff' = [called EXCEPT !.out_dir[e] = TRUE, !.spawned = p,
                                          !.proc[e] = p, !.alive = @ \cup {p},
                                          !.owner[p] = e]
    /\ UNCHANGED <<core, resp, probe, drv, cmd, snd, xv>>

\* FfmpegHls.start: RuntimeError when is_running (lines 157-158); otherwise
\* mkdir of out_dir (160) and popen (163), either of which may raise.
FfmpegHls_start(e) ==
    /\ ff.pc = "run"
    /\ LET called == [ff EXCEPT !.op = "start", !.e = e, !.raised = "none"]
       IN  IF FfmpegHls_is_running(ff, e)
             THEN ff' = [called EXCEPT !.raised = "RuntimeError"]
             ELSE \/ ff' = [called EXCEPT !.raised = "OSError"]
                  \/ ff' = [called EXCEPT !.out_dir[e] = TRUE,
                                          !.raised = "OSError"]
                  \/ /\ ff.spawned < MaxSpawned
                     /\ LET p == ff.spawned + 1
                        IN  ff' = [called EXCEPT !.out_dir[e] = TRUE,
                                                 !.spawned = p, !.proc[e] = p,
                                                 !.alive = @ \cup {p},
                                                 !.owner[p] = e]
    /\ UNCHANGED <<core, resp, probe, drv, cmd, snd, xv>>

\* FfmpegHls.stop: return when _proc is None (166); otherwise drop the
\* reference (169) and end the process if it has not exited (170-177).
FfmpegHls_stop(e) ==
    /\ ff.pc = "run"
    /\ LET called == [ff EXCEPT !.op = "stop", !.e = e, !.raised = "none"]
       IN  IF ff.proc[e] = 0
             THEN ff' = called
             ELSE ff' = [called EXCEPT !.proc[e] = 0,
                                       !.alive = @ \ {ff.proc[e]}]
    /\ UNCHANGED <<core, resp, probe, drv, cmd, snd, xv>>

\* ffmpeg exits by itself (no display, a bad device).
FfmpegHls_exit(p) ==
    /\ ff.pc = "run"
    /\ p \in ff.alive
    /\ ff' = [ff EXCEPT !.alive = @ \ {p}, !.op = "exit", !.e = ff.owner[p],
                        !.raised = "none"]
    /\ UNCHANGED <<core, resp, probe, drv, cmd, snd, xv>>

\* Session.cleanup removes the output directory of a handle whose process is
\* not writing into it.
FfmpegHls_cleanup(e) ==
    /\ ff.pc = "run"
    /\ ff.out_dir[e] /\ ~FfmpegHls_is_running(ff, e)
    /\ ff' = [ff EXCEPT !.out_dir[e] = FALSE, !.op = "cleanup", !.e = e,
                        !.raised = "none"]
    /\ UNCHANGED <<core, resp, probe, drv, cmd, snd, xv>>

NextEncoder ==
    \/ \E e \in EncoderHandles :
          FfmpegHls_start(e) \/ FfmpegHls_stop(e) \/ FfmpegHls_cleanup(e)
    \/ \E p \in Pids : FfmpegHls_exit(p)

SpecEncoder == InitEncoder /\ [][NextEncoder]_vars

\* Several sessions started side by side and left to their tasks: what the
\* tasks do to each other through the receiver binding registry.
NextPair ==
    \/ \E s \in Sids, r \in Receivers : start_session(s, r)
    \/ \E s \in Sids : StartRespond(s)
    \/ \E s \in Sids : Task(s)
    \/ \E s \in Sids : EncoderWrites(s) \/ SegmentAges(s)

SpecPair == Init /\ [][NextPair]_vars

\* A session, its task and encoder, and DELETE requests for it served side by
\* side.
NextTwice ==
    \/ \E s \in 1..MaxServed, r \in Receivers : start_session(s, r)
    \/ \E s \in Sids : StartRespond(s)
    \/ \E s \in Sids, h \in Handlers : Stop(s, h)
    \/ \E s \in Sids : Task(s)
    \/ \E s \in Sids : EncoderWrites(s) \/ SegmentAges(s)

SpecTwice == Init /\ [][NextTwice]_vars

\* The control plane, the tasks and the encoder processes with the wall
\* clock advancing.
NextClock == Next \/ Tick

SpecClock == Init /\ [][NextClock]_vars

\* A session left to its task, with the clock advancing, the encoder writing
\* or stalling, and the directory open to removal of its files from outside.
NextWatch ==
    \/ \E s \in 1..MaxServed, r \in Receivers : start_session(s, r)
    \/ \E s \in Sids : StartRespond(s)
    \/ \E s \in Sids : Task(s)
    \/ \E s \in Sids : EncoderWrites(s) \/ SegmentAges(s) \/ OutputLost(s)
    \/ Tick

SpecWatch == Init /\ [][NextWatch]_vars

\* The threads are scheduled: a task that can take a step (every blocking
\* call of _orchestrate returns or raises) takes it, and a POST handler that
\* has spawned its task builds its response.
Fairness == \A s \in Sids : WF_vars(Task(s)) /\ WF_vars(StartRespond(s))

SpecLive == Init /\ [][Next]_vars /\ Fairness

-----------------------------------------------------------------------------
(* Claims *)

\* The transition table of the state machine (the edges the specification of
\* the orchestrator lists).
Edges ==
    { <<"starting", "playing">>, <<"starting", "error">>,
      <<"playing", "stopping">>, <<"playing", "error">>,
      <<"stopping", "stopped">>, <<"starting", "stopped">>,
      <<"playing", "stopped">> }

\* C1: every change of a created session's state is one of the edges
\* starting->playing, starting->error, playing->stopping, playing->error,
\* stopping->stopped, starting->stopped, playing->stopped, and no step sets
\* the state of a created session to starting.
C1_StateEdges ==
    [][\A s \in Sids :
          (state[s] # "none" /\ state'[s] # state[s])
             => (<<state[s], state'[s]>> \in Edges /\ state'[s] # "starting")]_vars

\* C2: once DELETE /sessions/{id} has answered 200 for a session, none of its
\* display, browser and encoder handles is running (now or later) and the
\* receiver binding registry holds no entry whose value is the session.
C2_TeardownComplete ==
    \A s \in Sids :
        deleted[s] =>
            /\ ~xvfb[s] /\ ~driver[s] /\ ~encoder[s]
            /\ \A r \in Receivers : <<r, s>> \notin receiver_sessions

\* C3: while the registry maps a receiver name to session A, no step makes it
\* map that name to another session B: a second session's successful play
\* does not replace the first session's binding.
C3_NoEviction ==
    [][\A e \in receiver_sessions : \A b \in Sids :
          b # e[2] => <<e[1], b>> \notin receiver_sessions']_vars

C5_ErrorTerminal ==
    [][\A s \in Sids :
          /\ (state[s] = "error" /\ s \in sessions') => state'[s] = "error"
          /\ (state[s] = "error" /\ resp' # resp /\ resp'.op = "status"
                /\ resp'.sid = s /\ resp'.code = 200) => resp'.state = "error"]_vars

\* C6: no failure of a step of the orchestration task leaves the session in
\* starting or playing with the task terminated.
C6_FailureBecomesError ==
    \A s \in Sids : Terminated(s) => state[s] \notin {"starting", "playing"}

\* C7: when a single teardown step of the task has raised, the task still
\* runs the finally block to its end (the exception is not propagated), the
\* other collaborators are stopped and the runtime is removed from the
\* runtime registry.
C7_TeardownContinues ==
    \A s \in Sids :
        (Terminated(s) /\ tdFail[s] \notin {"none", "multiple"}) =>
            /\ pc[s] = "done"
            /\ s \notin runtimes
            /\ ~encoder[s] /\ ~xvfb[s]
            /\ tdFail[s] # "driver" => ~driver[s]

\* C8: a status read or DELETE that answers 404 changes nothing but the
\* response; a DELETE answers 200 or 404 only; after a DELETE has answered
\* 200 the record is not in the registry and a status read or DELETE of that
\* id answers 404.
C8_NotFound ==
    [][/\ (resp' # resp /\ resp'.code = 404) => UNCHANGED core
       /\ (resp' # resp /\ resp'.op = "delete") => resp'.code \in {200, 404}
       /\ \A s \in Sids : deleted'[s] => s \notin sessions'
       /\ (resp' # resp /\ resp'.op \in {"status", "delete"}
             /\ resp'.sid \in Sids /\ deleted[resp'.sid]) => resp'.code = 404]_vars

\* C9: a session in the registry has its directory, and once the session has
\* been deleted the directory does not exist (it is not left behind and not
\* created again).
C9_OneDirectory ==
    \A s \in Sids :
        /\ s \in sessions => dir[s]
        /\ deleted[s] => ~dir[s]

\* C10: whenever a session's state is playing, its display handle, browser
\* controller and encoder handle are all running.
C10_PlayingHasHandles ==
    \A s \in Sids :
        state[s] = "playing" => (xvfb[s] /\ driver[s] /\ encoder[s])

\* C11: two sessions live at the same time have different displays: the
\* display handed to the handles of a session with a runtime differs from
\* that of every other session whose display handle is running.
C11_DistinctDisplays ==
    \A a, b \in Sids :
        (a # b /\ b \in runtimes /\ xvfb[a]) => Display(a) # Display(b)

\* C12: last_ok_at never decreases: it is unset when the session is created,
\* only a successful freshness observation (a warmup or watchdog probe that
\* finds the playlist and a fresh segment) writes it, and every write is at
\* or after the previous value.
C12_LastOkMonotone ==
    [][\A s \in Sids :
          /\ (s \notin created /\ s \in created') => last_ok_at'[s] = 0
          /\ last_ok_at'[s] >= last_ok_at[s]
          /\ last_ok_at'[s] # last_ok_at[s] =>
                /\ pc[s] \in {"warmup_probe", "watchdog_probe"}
                /\ master[s] /\ seg[s] = "fresh"
                /\ last_ok_at'[s] = now]_vars

\* C12 witness: the watchdog has marked a session ok at the last clock value,
\* after the warmup marked it at an earlier one.
C12_Witness ==
    \E s \in Sids :
        /\ pc[s] = "watchdog" /\ state[s] = "playing"
        /\ last_ok_at[s] = MaxClock

\* C13, the part about single steps: the session becomes playing exactly
\* when a warmup tick before the deadline finds the playlist and a fresh age,
\* and sender.play is reached only through such a tick.
C13_ExactlyWhenFound ==
    [][\A s \in Sids :
          LET probed == pc[s] = "warmup_probe" /\ pc'[s] # "warmup_probe"
              found == master[s] /\ seg[s] = "fresh" /\ ticks[s] <= WarmupTicks
          IN  /\ (state'[s] = "playing" /\ state[s] # "playing") => (probed /\ found)
              /\ (pc'[s] = "play" /\ pc[s] # "play") => (probed /\ found)
              /\ (probed /\ found) => (state'[s] = "playing" /\ pc'[s] = "play")]_vars

\* The encoder has written the playlist and a fresh segment while the warmup
\* loop of the session has ticks left.
C13_Written(s) ==
    pc[s] = "warmup" /\ ticks[s] < WarmupTicks /\ master[s] /\ seg[s] = "fresh"

\* C13 as stated: the session becomes playing exactly when a warmup tick
\* finds the playlist and a fresh age, sender.play is reached only through
\* such a tick, and once the encoder has written the playlist and a fresh
\* segment the session eventually reaches playing.
C13_WarmupSuccessAlways ==
    /\ C13_ExactlyWhenFound
    /\ \A s \in Sids : C13_Written(s) ~> (state[s] = "playing")

\* C13 as amended: as stated, but the session reaches playing unless a stop
\* is requested before the next tick reads the directory.
C13_WarmupSuccess ==
    /\ C13_ExactlyWhenFound
    /\ \A s \in Sids :
          C13_Written(s) ~> (state[s] = "playing" \/ stop_event[s])

\* C13 witness: a warmup tick has found the output and the task is about to
\* call sender.play.
C13_Witness ==
    \E s \in Sids : pc[s] = "play" /\ state[s] = "playing" /\ last_ok_at[s] > 0

\* C14: when the warmup deadline passes without a tick having found a fresh
\* playlist, the state becomes error (from starting when no stop was
\* requested) and the teardown runs to its end; a DELETE of that session
\* afterwards answers 200 and removes the record.
C14_WarmupTimeout ==
    /\ [][\A s \in Sids :
           /\ (pc[s] = "warmup" /\ ticks[s] >= WarmupTicks /\ pc'[s] # pc[s]) =>
                 /\ state'[s] = "error" /\ pc'[s] = "td_encoder"
                 /\ ~stop_event[s] => state[s] = "starting"
           /\ (resp' # resp /\ resp'.op = "delete" /\ resp'.sid = s
                 /\ cause[s] = "deadline" /\ ~deleted[s]) =>
                 (resp'.code = 200 /\ s \notin sessions')]_vars
    /\ \A s \in Sids :
          (pc[s] = "warmup" /\ ticks[s] >= WarmupTicks)
             ~> (cause[s] = "deadline" /\ pc[s] = "done" /\ ~encoder[s] /\ ~xvfb[s])

\* C14 witness: the warmup of a session timed out, its state became error,
\* and a DELETE of it has answered 200.
C14_Witness ==
    \E s \in Sids : cause[s] = "deadline" /\ deleted[s] /\ s \notin sessions

\* C15: a playing session with no stop requested whose newest segment has
\* become stale and stays stale (the encoder writes no more) eventually has
\* state error, and the watchdog tick that reads the stale age is the step
\* that sets it.
C15_StaleBecomesError ==
    /\ [][\A s \in Sids :
           (pc[s] = "watchdog_probe" /\ pc'[s] # pc[s] /\ master[s] /\ seg[s] = "stale")
              => state'[s] = "error"]_vars
    /\ \A s \in Sids :
          (state[s] = "playing" /\ ~stop_event[s] /\ master[s] /\ seg[s] = "stale")
             ~> (state[s] = "error" \/ stop_event[s] \/ seg[s] # "stale")

\* C15 witness: the watchdog has read a stale age and the session is in
\* error.
C15_Witness ==
    \E s \in Sids : cause[s] = "stale" /\ state[s] = "error" /\ seg[s] = "stale"

\* C16: POST /sessions answers without waiting for a step of the start
\* protocol, and whatever the task it spawned has done by then, the
\* SessionStatus it returns reports state starting.
C16_PostReportsStarting ==
    [][(resp' # resp /\ resp'.op = "post" /\ resp'.code = 200)
          => resp'.state = "starting"]_vars

\* C17: in every SessionStatus the control plane returns (POST /sessions, GET
\* status, GET /sessions), hls_url is null when the session's playlist does
\* not exist and /cast/{id}/index.m3u8 when it does.
C17_HlsUrlNullUntilPlaylist ==
    [][resp' # resp =>
          /\ (resp'.op \in {"post", "status"} /\ resp'.code = 200) =>
                resp'.hls_url = IF master[resp'.sid]
                                  THEN <<"/cast", resp'.sid, "index.m3u8">>
                                  ELSE Null
          /\ \A i \in resp'.items :
                i.hls_url = IF master[i.sid] THEN <<"/cast", i.sid, "index.m3u8">>
                                            ELSE Null]_vars

\* C18: the directories of two distinct sessions of the registry differ and
\* neither is an ancestor of the other; every session directory is a direct
\* child of the sessions root, named by the session's id.
C18_DirectoryIsolation ==
    /\ \A a, b \in sessions :
          a # b => /\ SessionDir(a) # SessionDir(b)
                   /\ ~IsAncestor(SessionDir(a), SessionDir(b))
    /\ \A a \in sessions :
          /\ Len(SessionDir(a)) = Len(Root) + 1
          /\ SubSeq(SessionDir(a), 1, Len(Root)) = Root
          /\ SessionDir(a)[Len(SessionDir(a))] = a

\* C18 witness: two sessions are in the registry and both directories exist.
C18_Witness ==
    \E a, b \in sessions : a # b /\ dir[a] /\ dir[b]

\* C19: the age the freshness probe reports is now minus the mtime of the
\* newest segment when a segment exists, now minus the mtime of the playlist
\* when only the playlist exists, and none only when neither exists.
C19_ProbeAge ==
    probe.report.made =>
        probe.report.last_segment_age_ms =
            IF probe.segments # {}
              THEN probe.now - Newest(probe.segments)
              ELSE IF probe.master # None THEN probe.now - probe.master
                                         ELSE None

\* C20: the stale flag of the report is true exactly when the reported age
\* is none or greater than stale_after_ms.
C20_StaleIff ==
    probe.report.made =>
        (probe.report.stale <=>
            (probe.report.last_segment_age_ms = None
               \/ probe.report.last_segment_age_ms > 8000))

\* C21: a launch called on a fresh controller with both cookies and
\* cookies_path supplied ends with the validation error (ValueError) before
\* the driver is started: at no point of the call does a driver process,
\* browser, context or page exist, and is_running stays false.
C21_CookieSourceExclusive ==
    (/\ drv.pc # "idle" /\ ~drv.prior
     /\ drv.cookies # "None" /\ drv.cookies_path # "None") =>
        /\ drv.pc \in {"call", "done"}
        /\ drv.pc = "done" => drv.result = "ValueError"
        /\ ~drv.manager /\ ~drv.playwright /\ ~drv.browser /\ ~drv.context
        /\ ~drv.page
        /\ ~DriverIsRunning(drv)

\* C22: two calls of build_command on one handle yield equal argument
\* vectors, and in the vector the -bufsize value is twice the -b:v rate with
\* the same unit suffix and the -g and -keyint_min values are both 2 x fps.
C22_CommandDeterministic ==
    cmd.pc = "built twice" =>
        /\ cmd.first = cmd.second
        /\ ~cmd.first.raised =>
              LET argv == cmd.first.argv
                  rate == C22_ArgAfter(argv, <<"-b:v">>)
                  buf == C22_ArgAfter(argv, <<"-bufsize">>)
              IN  /\ C22_RateOf(buf) = 2 * C22_RateOf(rate)
                  /\ C22_UnitOf(buf) = C22_UnitOf(rate)
                  /\ ToInt(C22_ArgAfter(argv, <<"-g">>)) = 2 * cmd.profile.fps
                  /\ ToInt(C22_ArgAfter(argv, <<"-keyint_min">>)) = 2 * cmd.profile.fps

\* The receiver name of the call is the name of a device on the network that
\* has an id.
C23_Resolvable ==
    \E i \in 1..Len(snd.devices) :
        snd.devices[i].name = snd.receiver_name /\ snd.devices[i].id # ""

\* C23: a play or stop that returns has returned true exactly when it issued
\* a command: one command through the discovery client to the id of the
\* first device of that name, or one through a direct client to the given
\* host; it returns false and issues nothing when the discovery client finds
\* no device of the name, or when there is no discovery client and no direct
\* client can be made (none installed, or no host); a discover without a
\* discovery client returns the empty list.
C23_SenderResult ==
    (snd.pc = "done" /\ ~snd.raised) =>
        /\ snd.op \in {"play", "stop"} =>
              /\ snd.ret <=> snd.issued # <<>>
              /\ Len(snd.issued) <= 1
              /\ \A i \in 1..Len(snd.issued) :
                    /\ snd.issued[i].what = snd.op
                    /\ \/ /\ snd.issued[i].via = "discovery"
                          /\ snd.client = "discovery"
                          /\ \E k \in 1..Len(snd.devices) :
                                /\ snd.devices[k].name = snd.receiver_name
                                /\ snd.devices[k].id = snd.issued[i].id
                                /\ snd.devices[k].id # ""
                                /\ \A j \in 1..(k - 1) :
                                      \/ snd.devices[j].name # snd.receiver_name
                                      \/ snd.devices[j].id = ""
                       \/ /\ snd.issued[i].via = "direct"
                          /\ snd.client # "discovery"
                          /\ snd.legacy
                          /\ snd.host # "None"
                          /\ snd.issued[i].host = snd.host
              /\ snd.ret = IF snd.client = "discovery" THEN C23_Resolvable
                           ELSE snd.legacy /\ snd.host # "None"
        /\ (snd.op = "discover" /\ snd.client # "discovery") =>
              snd.receivers = <<>>

\* C23 witness: a play through the discovery client has returned true after
\* the name resolved to the second device of the list.
C23_Witness ==
    /\ snd.pc = "done" /\ ~snd.raised /\ snd.op = "play" /\ snd.ret
    /\ snd.client = "discovery" /\ Len(snd.devices) = 2
    /\ snd.devices[1].name # snd.receiver_name
    /\ snd.issued = <<Command("discovery", "play", snd.devices[2].id, "None")>>

\* The DELETE handlers of a session that have found the receiver bound to
\* the session and are calling sender.stop.
C24_Stopping(s) ==
    {h \in Handlers : dpc[s][h] \in {"receiver_stop", "receiver_stop2"}}

\* C24: of the DELETE requests for one session that run side by side, at
\* most one stops the receiver: no two handlers are in sender.stop for the
\* session's receiver.
C24_DoubleStopIdempotent ==
    \A s \in Sids : Cardinality(C24_Stopping(s)) <= 1

\* C25: when the stop signal is raised while the task is in the warmup loop
\* (before its deadline), the loop ends without an error: the task goes to
\* teardown and the step does not set the state to error.
C25_WarmupStopNoError ==
    [][\A s \in Sids :
          (/\ pc[s] = "warmup" /\ stop_event[s] /\ ticks[s] < WarmupTicks
           /\ pc'[s] # pc[s])
             => (pc'[s] = "td_encoder" /\ state'[s] # "error")]_vars

\* C26: in a session's task display.start has returned before browser.launch
\* is invoked, browser.launch has returned before encoder.start is invoked,
\* and encoder.start has returned before the first freshness probe; when one
\* of them fails the task goes to its teardown with the state error and no
\* later start step is invoked.
C26_StartOrder ==
    [][\A s \in Sids :
          /\ (pc'[s] = "launch" /\ pc[s] # "launch") =>
                (pc[s] = "xvfb" /\ xvfb'[s])
          /\ (pc'[s] = "encoder" /\ pc[s] # "encoder") =>
                (pc[s] = "launch" /\ driver'[s])
          /\ (pc'[s] = "warmup" /\ pc[s] \notin {"warmup", "warmup_probe"}) =>
                (pc[s] = "encoder" /\ encoder'[s])
          /\ (pc'[s] = "warmup_probe" /\ pc[s] # "warmup_probe") =>
                pc[s] = "warmup"
          /\ (pc[s] \in {"xvfb", "launch", "encoder"} /\ pc'[s] # pc[s]) =>
                \/ pc'[s] = (CASE pc[s] = "xvfb" -> "launch"
                               [] pc[s] = "launch" -> "encoder"
                               [] pc[s] = "encoder" -> "warmup")
                \/ pc'[s] = "td_encoder" /\ state'[s] = "error"]_vars

\* C26 witness: the task is at its first freshness probe with the display,
\* the browser and the encoder started in that order.
C26_Witness ==
    \E s \in Sids :
        /\ pc[s] = "warmup_probe" /\ ticks[s] = 1 /\ state[s] = "starting"
        /\ xvfb[s] /\ driver[s] /\ encoder[s]

\* C27: every path that tears a session down keeps the order encoder.stop,
\* browser.close, display.stop, then the receiver stop with the binding
\* removal: a step that stops the receiver and removes the session's binding
\* finds the session's encoder and display already stopped.
C27_TeardownOrder ==
    [][\A s \in Sids :
          (/\ BoundTo(receiver_sessions, receiver_name[s], s)
           /\ receiver_sessions' = DictPop(receiver_sessions, receiver_name[s]))
             => (~encoder[s] /\ ~xvfb[s])]_vars

\* C28: a binding is erased only by a teardown or stop path of the session it
\* belongs to: whenever a step removes a receiver name from the registry,
\* the step is one of the task, of a DELETE handler or of the shutdown of the
\* session the registry mapped the name to.
C28_OwnBindingOnly ==
    [][\A e \in receiver_sessions :
          (\A b \in Sids : <<e[1], b>> \notin receiver_sessions') =>
              \/ pc'[e[2]] # pc[e[2]]
              \/ dpc'[e[2]] # dpc[e[2]]
              \/ sh' # sh /\ sh.cur = e[2]]_vars

\* C29: when sender.play returns false the session is not aborted: the step
\* inserts no binding, leaves the state, the stop signal and the collaborators
\* as they are and enters the watchdog loop; a task in the watchdog loop
\* with no stop requested has state playing and its display, browser and
\* encoder running, and it leaves the loop only on a stop request or a stale
\* age.
C29_PlayFalseContinues ==
    /\ [][\A s \in Sids :
           /\ (/\ pc[s] = "play" /\ pc'[s] = "watchdog"
               /\ ~BoundTo(receiver_sessions', receiver_name[s], s)) =>
                 /\ receiver_sessions' = receiver_sessions
                 /\ state'[s] = state[s] /\ stop_event'[s] = stop_event[s]
                 /\ xvfb'[s] = xvfb[s] /\ driver'[s] = driver[s]
                 /\ encoder'[s] = encoder[s]
           /\ (/\ pc[s] \in {"watchdog", "watchdog_probe"}
               /\ pc'[s] \notin {"watchdog", "watchdog_probe"}) =>
                 (stop_event[s] \/ FreshnessMs(s) = "stale")]_vars
    /\ [](\A s \in Sids :
            (pc[s] \in {"watchdog", "watchdog_probe"} /\ ~stop_event[s]) =>
               (state[s] = "playing" /\ xvfb[s] /\ driver[s] /\ encoder[s]))

\* C29 witness: play has returned false (the session is bound to no receiver)
\* and the task is in its watchdog loop, marking the playing session ok.
C29_Witness ==
    \E s \in Sids :
        /\ pc[s] = "watchdog" /\ ~stop_event[s] /\ state[s] = "playing"
        /\ \A r \in Receivers : <<r, s>> \notin receiver_sessions
        /\ last_ok_at[s] = MaxClock

\* C30: a watchdog tick on a playing session sets the state to error exactly
\* when the probe returns a known age above stale_after_ms; a tick whose
\* probe returns no age changes neither the state nor last_ok_at; a tick
\* whose probe returns an age of at most stale_after_ms records last_ok_at
\* and leaves the state playing.
C30_WatchdogTick ==
    [][\A s \in Sids :
          (pc[s] = "watchdog_probe" /\ pc'[s] # pc[s] /\ state[s] = "playing") =>
             /\ state'[s] = "error" <=> FreshnessMs(s) = "stale"
             /\ FreshnessMs(s) = "none" =>
                   (state'[s] = state[s] /\ last_ok_at'[s] = last_ok_at[s])
             /\ FreshnessMs(s) = "fresh" =>
                   (state'[s] = "playing" /\ last_ok_at'[s] = now)]_vars

\* C30 witness: the watchdog of a playing session that was marked ok at an
\* earlier clock value is at a tick whose probe returns no age.
C30_Witness ==
    \E s \in Sids :
        /\ pc[s] = "watchdog_probe" /\ state[s] = "playing"
        /\ FreshnessMs(s) = "none"
        /\ last_ok_at[s] > 0 /\ last_ok_at[s] < now

\* C31: a DELETE on a registered session completes with the answer 200 and
\* with the record and the runtime entry removed: whenever a
\* DELETE handler that found the record ends, its answer is 200, the session
\* is in neither registry.
C31_DeleteCompletes ==
    [][\A s \in Sids : \A h \in Handlers :
          (dpc[s][h] \notin {"idle"} /\ dpc'[s][h] = "idle") =>
             /\ resp'.op = "delete" /\ resp'.sid = s /\ resp'.code = 200
             /\ s \notin sessions' /\ s \notin runtimes']_vars

\* Positions of the task inside its warmup loop and its watchdog loop.
C32_InLoop(s) ==
    pc[s] \in {"warmup", "warmup_probe", "watchdog", "watchdog_probe"}

\* Positions of the task after it left the loops: the teardown and its ends.
C32_LeftLoop(s) ==
    pc[s] \in {"td_encoder", "td_driver", "td_xvfb", "td_receiver",
               "td_receiver_stop", "td_state", "td_pop", "done", "td_crashed"}

\* C32: a raised stop signal stays raised; a task at the wait of its warmup or
\* watchdog loop with the signal raised leaves the loop for the teardown at
\* that step and starts no loop tick afterwards; and a task in either loop
\* whose signal is raised eventually ends with the teardown complete, unless
\* a collaborator call raised out of the teardown instead of returning.
C32_StopObserved ==
    /\ [][\A s \in Sids :
           /\ stop_event[s] => stop_event'[s]
           /\ (stop_event[s] /\ pc[s] \in {"warmup", "watchdog"} /\ pc'[s] # pc[s])
                 => pc'[s] = "td_encoder"
           /\ C32_LeftLoop(s) => C32_LeftLoop(s)']_vars
    /\ \A s \in Sids :
          (stop_event[s] /\ C32_InLoop(s))
             ~> (pc[s] = "done" \/ pc[s] = "td_crashed")

\* C32 witness: a DELETE or the shutdown raised the signal of a session in its
\* watchdog loop, and its task has left the loop, finished the teardown with
\* state stopped and ended.
C32_Witness ==
    \E s \in Sids : stop_event[s] /\ pc[s] = "done" /\ state[s] = "stopped"

\* The step is a call of op on the Xvfb handle h.
C33_Call(op, h) == xv' # xv /\ xv'.op = op /\ xv'.h = h

\* The step changes no process, no handle and not the environment.
C33_Nothing ==
    /\ xv'.proc = xv.proc /\ xv'.alive = xv.alive
    /\ xv'.spawned = xv.spawned /\ xv'.DISPLAY = xv.DISPLAY

\* The live processes that a start of handle h spawned.
C33_AliveOf(h) == {p \in xv.alive : xv.owner[p] = h}

\* At most one process spawned by a handle is alive, and is_running of the
\* handle is true exactly when there is one.
C33_OneProcess ==
    \A h \in XvfbHandles :
       /\ Cardinality(C33_AliveOf(h)) <= 1
       /\ Xvfb_is_running(xv, h) <=> C33_AliveOf(h) # {}

\* C33 as stated: start on a handle whose process is alive spawns nothing;
\* stop on a handle that is not running does nothing; at most one process of
\* a handle is alive and is_running tells whether one is.
C33_Idempotent ==
    /\ []C33_OneProcess
    /\ [][\A h \in XvfbHandles :
           /\ (C33_Call("start", h) /\ Xvfb_is_running(xv, h))
                 => (xv'.spawned = xv.spawned /\ xv'.alive = xv.alive)
           /\ (C33_Call("stop", h) /\ ~Xvfb_is_running(xv, h))
                 => C33_Nothing]_vars

\* C33 amended: start on a handle whose process is alive spawns nothing; stop
\* on a handle that holds no process does nothing; stop on a handle whose
\* process has exited signals and spawns nothing, drops the reference to the
\* process and removes DISPLAY when it equals the handle's display; at most
\* one process of a handle is alive and is_running tells whether one is.
C33_IdempotentAmended ==
    /\ []C33_OneProcess
    /\ [][\A h \in XvfbHandles :
           /\ (C33_Call("start", h) /\ Xvfb_is_running(xv, h))
                 => (xv'.spawned = xv.spawned /\ xv'.alive = xv.alive)
           /\ (C33_Call("stop", h) /\ xv.proc[h] = 0) => C33_Nothing
           /\ (C33_Call("stop", h) /\ xv.proc[h] # 0 /\ ~Xvfb_is_running(xv, h))
                 => /\ xv'.spawned = xv.spawned /\ xv'.alive = xv.alive
                    /\ xv'.proc = [xv.proc EXCEPT ![h] = 0]
                    /\ xv'.DISPLAY = IF xv.DISPLAY = xv.display[h]
                                       THEN "unset" ELSE xv.DISPLAY]_vars

\* C33 witness: start was called on a handle whose process is alive, after a
\* handle on another display had started: no process was spawned and DISPLAY
\* is still the other handle's.
C33_Witness ==
    \E h \in XvfbHandles :
       /\ xv.op = "start" /\ xv.h = h /\ ~xv.raised
       /\ Xvfb_is_running(xv, h) /\ xv.DISPLAY # xv.display[h]

\* C34 as stated: a start sets DISPLAY to the handle's display; a stop
\* removes DISPLAY if and only if it equals the handle's display.
C34_DisplayEnv ==
    [][\A h \in XvfbHandles :
         /\ (C33_Call("start", h) /\ ~xv'.raised)
               => xv'.DISPLAY = xv.display[h]
         /\ C33_Call("stop", h)
               => xv'.DISPLAY = IF xv.DISPLAY = xv.display[h]
                                  THEN "unset" ELSE xv.DISPLAY]_vars

\* C34 amended: a start that spawns the display process sets DISPLAY to the
\* handle's display, a start on a handle whose process is alive leaves it; a
\* stop on a handle that holds a process removes DISPLAY if and only if it
\* equals the handle's display, a stop on a handle that holds no process
\* leaves it; so a stop never clears the value of a handle on another
\* display.
C34_DisplayEnvAmended ==
    [][\A h \in XvfbHandles :
         /\ (C33_Call("start", h) /\ ~xv'.raised)
               => xv'.DISPLAY = IF Xvfb_is_running(xv, h) THEN xv.DISPLAY
                                                          ELSE xv.display[h]
         /\ (C33_Call("start", h) /\ xv'.raised) => xv'.DISPLAY = xv.DISPLAY
         /\ C33_Call("stop", h)
               => xv'.DISPLAY = IF xv.proc[h] # 0 /\ xv.DISPLAY = xv.display[h]
                                  THEN "unset" ELSE xv.DISPLAY
         /\ (C33_Call("stop", h) /\ xv.DISPLAY # xv.display[h])
               => xv'.DISPLAY = xv.DISPLAY]_vars

\* C34 witness: a handle was started and stopped, a stop on a handle that
\* holds no process has returned, and DISPLAY equals that handle's display.
C34_Witness ==
    \E h \in XvfbHandles :
       /\ xv.op = "stop" /\ xv.h = h /\ xv.proc[h] = 0
       /\ xv.DISPLAY = xv.display[h] /\ xv.spawned > 0

\* The step is a call of op on the FfmpegHls handle e.
C35_Call(op, e) == ff' # ff /\ ff'.op = op /\ ff'.e = e

\* C35: start on a handle whose process is running raises the already-running
\* error, spawns nothing and leaves the process and the handle as they were;
\* stop on a handle that holds no process (stopped before, or never started)
\* changes nothing; is_running is true when a start has returned and false
\* when a stop has returned.
C35_EncoderStartStop ==
    [][\A e \in EncoderHandles :
         /\ (C35_Call("start", e) /\ FfmpegHls_is_running(ff, e))
               => /\ ff'.raised = "RuntimeError"
                  /\ ff'.spawned = ff.spawned /\ ff'.alive = ff.alive
                  /\ ff'.proc = ff.proc /\ ff'.out_dir = ff.out_dir
         /\ (C35_Call("start", e) /\ ~FfmpegHls_is_running(ff, e))
               => ff'.raised # "RuntimeError"
         /\ (C35_Call("stop", e) /\ ff.proc[e] = 0)
               => /\ ff'.spawned = ff.spawned /\ ff'.alive = ff.alive
                  /\ ff'.proc = ff.proc /\ ff'.out_dir = ff.out_dir
                  /\ ff'.raised = "none"
         /\ (C35_Call("start", e) /\ ff'.raised = "none")
               => FfmpegHls_is_running(ff, e)'
         /\ C35_Call("stop", e) => ~FfmpegHls_is_running(ff, e)']_vars

\* C35 witness: a start on a running encoder has raised the already-running
\* error and the process it found is still the handle's, alive.
C35_Witness ==
    \E e \in EncoderHandles :
       /\ ff.op = "start" /\ ff.e = e /\ ff.raised = "RuntimeError"
       /\ FfmpegHls_is_running(ff, e)

\* C36: whenever a close call on the controller has ended (after a launch
\* that returned, after a launch that raised part-way, or as a second close),
\* it has returned, and the controller holds no page, no context, no browser
\* and no driver, and is_running is false.
C36_CloseLeavesNothing ==
    drv.pc = "closed" =>
       /\ drv.close = "returned"
       /\ ~drv.page /\ ~drv.context /\ ~drv.browser
       /\ ~drv.playwright /\ ~drv.manager
       /\ ~DriverIsRunning(drv)

\* C37: on every directory content the encoder handle's freshness_ms is the
\* age the session's probe reports, and is_fresh is the negation of the
\* probe's stale flag.
C37_ProbesAgree ==
    probe.report.made =>
       /\ FfmpegHls_freshness_ms(probe.now, probe.master, probe.segments)
             = probe.report.last_segment_age_ms
       /\ FfmpegHls_is_fresh(probe.now, probe.master, probe.segments)
             = ~probe.report.stale

\* C38: once the stop signal of a session is raised, its task makes no
\* sender.play call and inserts no receiver binding.
C38_NoPlayAfterStop ==
    [][\A s \in Sids :
         stop_event[s] =>
            /\ ~(pc[s] = "play" /\ pc'[s] # "play")
            /\ (BoundTo(receiver_sessions', receiver_name[s], s)
                   => BoundTo(receiver_sessions, receiver_name[s], s))]_vars

\* C39: every entry of the binding registry maps a receiver name to a
\* session that is in the session registry, that asked for that receiver and
\* got it bound by its own play step, and whose task has not ended: no
\* binding outlives its session.
C39_BindingsLive ==
    \A b \in receiver_sessions :
       /\ b[2] \in sessions
       /\ receiver_name[b[2]] = b[1]
       /\ pc[b[2]] \in {"watchdog", "watchdog_probe", "td_encoder", "td_driver",
                        "td_xvfb", "td_receiver", "td_receiver_stop"}

\* C40: once _shutdown_sessions has returned, both registries are empty, and
\* for every session it found in the registry (none that a DELETE had
\* removed before) the directory is gone, no binding remains, and no display,
\* browser or encoder is running, then or at any later time.
C40_ShutdownLeavesNothing ==
    sh.pc = "done" =>
       /\ sessions = {} /\ runtimes = {}
       /\ \A s \in Sids :
             ~deleted[s] =>
                /\ ~BoundTo(receiver_sessions, receiver_name[s], s)
                /\ ~dir[s] /\ ~xvfb[s] /\ ~driver[s] /\ ~encoder[s]

=============================================================================
